---- MODULE Spec2Model ----
(***************************************************************************)
(* Model of the Andhra cultural guide: the knowledge store                 *)
(* (CulturalDatabaseImpl), the fallback builder (ErrorHandler), the        *)
(* completeness validator (DataValidator) and the response formatter       *)
(* (ResponseFormatter).                                                    *)
(*                                                                         *)
(* A JavaScript string is modelled as a sequence of one-character strings, *)
(* so that toLowerCase, includes, trim and the regular expressions of the  *)
(* source are computed character by character.  A JavaScript Map is a      *)
(* function whose domain is the set of its keys; a lookup that misses     *)
(* returns Null; an absent optional field is an absent record field.      *)
(***************************************************************************)
EXTENDS Integers, Sequences, FiniteSets, TLC

\* Number of the fragments of ContentPieces the contents handed to the formatter draw on.
MaxPieces == 5

\* Length of the longest candidate list handed to findClosestMatch.
MaxCandidates == 3

\* Length of the longest regionalVariations and associatedFoods list handed to a validator.
MaxEntries == 2

\* null, as returned by a lookup that misses (a record, so that it compares with records)
Null == [null |-> TRUE]

---------------------------------------------------------------------------
\* JavaScript string primitives

UpperChars == <<"A","B","C","D","E","F","G","H","I","J","K","L","M","N","O","P","Q","R","S","T",
                "U","V","W","X","Y","Z">>
LowerChars == <<"a","b","c","d","e","f","g","h","i","j","k","l","m","n","o","p","q","r","s","t",
                "u","v","w","x","y","z">>
DigitChars == <<"0","1","2","3","4","5","6","7","8","9">>

Range(s) == {s[i] : i \in DOMAIN s}

UpperSet == Range(UpperChars)

LowerSet == Range(LowerChars)

\* \w of a regular expression
WordChars == UpperSet \cup LowerSet \cup Range(DigitChars) \cup {"_"}

IsWordChar(c) == c \in WordChars

\* \s of a regular expression
IsSpace(c) == c \in {" ", "\n", "\t", "\r"}

LowerOf == [c \in UpperSet |-> LowerChars[CHOOSE i \in DOMAIN UpperChars : UpperChars[i] = c]]

UpperOf == [c \in LowerSet |-> UpperChars[CHOOSE i \in DOMAIN LowerChars : LowerChars[i] = c]]

toLowerChar(c) == IF c \in UpperSet THEN LowerOf[c] ELSE c

toUpperChar(c) == IF c \in LowerSet THEN UpperOf[c] ELSE c

toLowerCase(s) == [i \in 1..Len(s) |-> toLowerChar(s[i])]

\* t occurs in s at index from (1-based)
MatchAt(s, from, t) ==
    /\ from >= 1
    /\ from + Len(t) - 1 <= Len(s)
    /\ \A j \in 1..Len(t) : s[from + j - 1] = t[j]

endsWith(s, t) == Len(t) <= Len(s) /\ MatchAt(s, Len(s) - Len(t) + 1, t)

includes(s, t) ==
    \E i \in 1..(Len(s) - Len(t) + 1) : \A j \in 1..Len(t) : s[i + j - 1] = t[j]

RECURSIVE nextNonSpace(_, _)
\* index of the first character after index i that is not whitespace, 0 if there is none
nextNonSpace(s, i) ==
    IF i + 1 > Len(s) THEN 0
    ELSE IF ~IsSpace(s[i + 1]) THEN i + 1 ELSE nextNonSpace(s, i + 1)

RECURSIVE prevNonSpace(_, _)
\* index of the last character before index i that is not whitespace, 0 if there is none
prevNonSpace(s, i) ==
    IF i - 1 < 1 THEN 0
    ELSE IF ~IsSpace(s[i - 1]) THEN i - 1 ELSE prevNonSpace(s, i - 1)

\* s.trim()
trim(s) ==
    LET first == nextNonSpace(s, 0)
    IN  IF first = 0 THEN <<>> ELSE SubSeq(s, first, prevNonSpace(s, Len(s) + 1))

---------------------------------------------------------------------------
\* CulturalDatabaseImpl: the hardcoded records

slangEntries == <<
    [term |-> <<"A","r","e","y"," ","B","a","b","o","i">>,
     literalMeaning |-> <<"O","h"," ","m","y"," ","G","o","d">>,
     emotionalIntent |-> <<"S","h","o","c","k"," ","/"," ","f","r","u","s","t","r","a","t","i","o","n"," ",
                           "/"," ","d","i","s","b","e","l","i","e","f">>,
     socialAppropriateness |-> <<"I","n","f","o","r","m","a","l"," ","o","n","l","y">>,
     formalityLevel |-> <<"i","n","f","o","r","m","a","l">>,
     regionalVariations |-> <<>>],
    [term |-> <<"D","o","o","l","a"," ","T","e","e","r","i","n","d","a","?">>,
     literalMeaning |-> <<"A","r","e"," ","y","o","u"," ","o","u","t"," ","o","f"," ","y","o","u","r"," ",
                          "m","i","n","d","?">>,
     emotionalIntent |-> <<"A","n","g","e","r"," ","/"," ","s","c","o","l","d","i","n","g">>,
     socialAppropriateness |-> <<"U","s","e"," ","o","n","l","y"," ","a","m","o","n","g"," ","c","l","o","s","e",
                                 " ","r","e","l","a","t","i","o","n","s">>,
     formalityLevel |-> <<"i","n","f","o","r","m","a","l">>],
    [term |-> <<"T","a","g","g","e","d","e"," ","L","e">>,
     literalMeaning |-> <<"I"," ","w","o","n","'","t"," ","s","t","e","p"," ","b","a","c","k">>,
     emotionalIntent |-> <<"C","o","n","f","i","d","e","n","c","e"," ","/"," ","m","o","t","i","v","a","t",
                           "i","o","n">>,
     socialAppropriateness |-> <<"O","f","t","e","n"," ","u","s","e","d"," ","h","u","m","o","r","o","u","s","l",
                                 "y">>,
     formalityLevel |-> <<"i","n","f","o","r","m","a","l">>],
    [term |-> <<"L","i","t","e"," ","T","e","e","s","k","o">>,
     literalMeaning |-> <<"D","o","n","'","t"," ","w","o","r","r","y"," ","a","b","o","u","t"," ","i","t">>,
     emotionalIntent |-> <<"C","o","m","f","o","r","t"," ","/"," ","c","a","s","u","a","l"," ","d","i","s",
                           "m","i","s","s","a","l">>,
     socialAppropriateness |-> <<"C","a","s","u","a","l"," ","c","o","n","v","e","r","s","a","t","i","o","n","s">>,
     formalityLevel |-> <<"i","n","f","o","r","m","a","l">>],
    [term |-> <<"C","h","a","l","a"," ","S","c","e","n","e"," ","U","n","d","i">>,
     literalMeaning |-> <<"T","o","o"," ","m","u","c","h"," ","d","r","a","m","a">>,
     emotionalIntent |-> <<"S","a","r","c","a","s","m">>,
     socialAppropriateness |-> <<"Y","o","u","t","h"," ","s","l","a","n","g">>,
     formalityLevel |-> <<"i","n","f","o","r","m","a","l">>] >>

foodEntries == <<
    [name |-> <<"P","u","n","u","g","u","l","u">>, city |-> <<"V","i","s","a","k","h","a","p","a","t","n","a","m">>,
     spiceLevel |-> <<"m","e","d","i","u","m">>, bestTime |-> <<"E","v","e","n","i","n","g">>,
     description |-> <<"D","e","e","p","-","f","r","i","e","d"," ","l","e","n","t","i","l"," ","b","a",
                       "l","l","s",","," ","c","r","i","s","p","y"," ","o","u","t","s","i","d","e"," ",
                       "a","n","d"," ","s","o","f","t"," ","i","n","s","i","d","e">>,
     culturalSignificance |-> <<"P","o","p","u","l","a","r"," ","e","v","e","n","i","n","g"," ","s","n","a","c",
                                "k"," ","n","e","a","r"," ","b","e","a","c","h"," ","a","r","e","a","s">>],
    [name |-> <<"B","o","n","g","u","l","o"," ","C","h","i","c","k","e","n">>, city |-> <<"V","i","s","a","k","h","a","p","a","t","n","a","m">>,
     spiceLevel |-> <<"h","i","g","h">>, bestTime |-> <<"E","v","e","n","i","n","g">>,
     description |-> <<"S","p","i","c","y"," ","c","h","i","c","k","e","n"," ","p","r","e","p","a","r",
                       "a","t","i","o","n"," ","w","i","t","h"," ","c","o","a","s","t","a","l"," ","f",
                       "l","a","v","o","r","s">>,
     culturalSignificance |-> <<"C","o","a","s","t","a","l"," ","A","n","d","h","r","a"," ","s","p","e","c","i",
                                "a","l","t","y"," ","w","i","t","h"," ","s","e","a","f","o","o","d"," ","i","n",
                                "f","l","u","e","n","c","e">>],
    [name |-> <<"I","d","l","i"," ","w","i","t","h"," ","K","a","r","a","m">>, city |-> <<"V","i","j","a","y","a","w","a","d","a">>,
     spiceLevel |-> <<"h","i","g","h">>, bestTime |-> <<"M","o","r","n","i","n","g">>,
     description |-> <<"S","t","e","a","m","e","d"," ","r","i","c","e"," ","c","a","k","e","s"," ","w",
                       "i","t","h"," ","s","p","i","c","y"," ","p","o","w","d","e","r">>,
     culturalSignificance |-> <<"T","r","a","d","i","t","i","o","n","a","l"," ","b","r","e","a","k","f","a","s",
                                "t"," ","c","o","m","b","i","n","i","n","g"," ","c","o","m","f","o","r","t"," ",
                                "w","i","t","h"," ","s","p","i","c","e">>],
    [name |-> <<"C","h","i","c","k","e","n"," ","P","a","k","o","d","i">>, city |-> <<"V","i","j","a","y","a","w","a","d","a">>,
     spiceLevel |-> <<"m","e","d","i","u","m">>, bestTime |-> <<"E","v","e","n","i","n","g">>,
     description |-> <<"S","p","i","c","e","d"," ","c","h","i","c","k","e","n"," ","f","r","i","t","t",
                       "e","r","s">>,
     culturalSignificance |-> <<"P","o","p","u","l","a","r"," ","e","v","e","n","i","n","g"," ","s","n","a","c",
                                "k"," ","i","n"," ","K","r","i","s","h","n","a"," ","d","i","s","t","r","i","c",
                                "t">>],
    [name |-> <<"M","i","r","c","h","i"," ","B","a","j","j","i">>, city |-> <<"G","u","n","t","u","r">>,
     spiceLevel |-> <<"e","x","t","r","e","m","e">>, bestTime |-> <<"E","v","e","n","i","n","g">>,
     description |-> <<"S","t","u","f","f","e","d"," ","c","h","i","l","i"," ","f","r","i","t","t","e",
                       "r","s">>,
     culturalSignificance |-> <<"G","u","n","t","u","r","'","s"," ","s","i","g","n","a","t","u","r","e"," ","d",
                                "i","s","h"," ","s","h","o","w","c","a","s","i","n","g"," ","e","x","t","r","e",
                                "m","e"," ","s","p","i","c","e"," ","t","o","l","e","r","a","n","c","e">>],
    [name |-> <<"G","o","n","g","u","r","a"," ","P","a","c","h","a","d","i">>, city |-> <<"G","u","n","t","u","r">>,
     spiceLevel |-> <<"h","i","g","h">>, bestTime |-> <<"L","u","n","c","h">>,
     description |-> <<"T","a","n","g","y"," ","s","o","r","r","e","l"," ","l","e","a","v","e","s"," ",
                       "c","h","u","t","n","e","y">>,
     culturalSignificance |-> <<"G","u","n","t","u","r","'","s"," ","p","r","i","d","e",","," ","r","e","p","r",
                                "e","s","e","n","t","s"," ","b","o","l","d"," ","f","l","a","v","o","r","s">>],
    [name |-> <<"D","o","s","a"," ","w","i","t","h"," ","R","e","d"," ","C","h","u","t","n","e",
                "y">>, city |-> <<"T","i","r","u","p","a","t","i">>,
     spiceLevel |-> <<"m","e","d","i","u","m">>, bestTime |-> <<"M","o","r","n","i","n","g">>,
     description |-> <<"C","r","i","s","p","y"," ","c","r","e","p","e"," ","w","i","t","h"," ","s","p",
                       "i","c","y"," ","r","e","d"," ","c","h","u","t","n","e","y">>,
     culturalSignificance |-> <<"T","e","m","p","l","e"," ","t","o","w","n"," ","b","r","e","a","k","f","a","s",
                                "t"," ","t","r","a","d","i","t","i","o","n">>],
    [name |-> <<"L","a","d","d","u">>, city |-> <<"T","i","r","u","p","a","t","i">>,
     spiceLevel |-> <<"l","o","w">>, bestTime |-> <<"A","n","y">>,
     description |-> <<"S","w","e","e","t"," ","g","r","a","m"," ","f","l","o","u","r"," ","b","a","l",
                       "l","s">>,
     culturalSignificance |-> <<"S","a","c","r","e","d"," ","t","e","m","p","l","e"," ","p","r","a","s","a","d",
                                "a","m",","," ","s","p","i","r","i","t","u","a","l","l","y"," ","s","i","g","n",
                                "i","f","i","c","a","n","t">>],
    [name |-> <<"V","e","g","e","t","a","b","l","e"," ","B","i","r","y","a","n","i">>, city |-> <<"T","i","r","u","p","a","t","i">>,
     spiceLevel |-> <<"m","e","d","i","u","m">>, bestTime |-> <<"E","v","e","n","i","n","g">>,
     description |-> <<"A","r","o","m","a","t","i","c"," ","r","i","c","e"," ","w","i","t","h"," ","m",
                       "i","x","e","d"," ","v","e","g","e","t","a","b","l","e","s"," ","a","n","d"," ",
                       "s","p","i","c","e","s">>,
     culturalSignificance |-> <<"T","e","m","p","l","e"," ","t","o","w","n"," ","v","e","g","e","t","a","r","i",
                                "a","n"," ","s","p","e","c","i","a","l","t","y"," ","f","o","r"," ","e","v","e",
                                "n","i","n","g"," ","m","e","a","l","s">>],
    [name |-> <<"C","u","r","d"," ","R","i","c","e">>, city |-> <<"T","i","r","u","p","a","t","i">>,
     spiceLevel |-> <<"l","o","w">>, bestTime |-> <<"E","v","e","n","i","n","g">>,
     description |-> <<"C","o","o","l","i","n","g"," ","r","i","c","e"," ","w","i","t","h"," ","y","o",
                       "g","u","r","t"," ","a","n","d"," ","m","i","l","d"," ","t","e","m","p","e","r",
                       "i","n","g">>,
     culturalSignificance |-> <<"T","e","m","p","l","e"," ","t","o","w","n"," ","c","o","m","f","o","r","t"," ",
                                "f","o","o","d",","," ","p","e","r","f","e","c","t"," ","f","o","r"," ","e","v",
                                "e","n","i","n","g">>] >>

festivalEntries == <<
    [name |-> <<"S","a","n","k","r","a","n","t","i">>,
     culturalMeaning |-> <<"H","a","r","v","e","s","t"," ","f","e","s","t","i","v","a","l"," ","c","e","l",
                           "e","b","r","a","t","i","n","g"," ","t","h","e"," ","t","r","a","n","s","i","t",
                           "i","o","n"," ","o","f"," ","s","e","a","s","o","n","s"," ","a","n","d"," ","a",
                           "g","r","i","c","u","l","t","u","r","a","l"," ","a","b","u","n","d","a","n","c",
                           "e">>,
     associatedFoods |-> << <<"A","r","i","s","e","l","u">>, <<"P","o","n","g","a","l">> >>,
     foodSymbolism |-> <<"A","r","i","s","e","l","u"," ","r","e","p","r","e","s","e","n","t","s"," ","p",
                         "r","o","s","p","e","r","i","t","y",","," ","P","o","n","g","a","l"," ","s","y",
                         "m","b","o","l","i","z","e","s"," ","g","r","a","t","i","t","u","d","e"," ","t",
                         "o"," ","n","a","t","u","r","e">>,
     emotionalTone |-> <<"F","a","m","i","l","y"," ","b","o","n","d","i","n","g"," ","a","n","d"," ","g",
                         "r","a","t","i","t","u","d","e">>,
     regionalVariations |-> <<
        [region |-> <<"c","o","a","s","t","a","l">>,
         variation |-> <<"M","o","r","e"," ","e","m","p","h","a","s","i","s"," ","o","n"," ","s","e","a",
                         "f","o","o","d"," ","p","r","e","p","a","r","a","t","i","o","n","s"," ","a","l",
                         "o","n","g","s","i","d","e"," ","t","r","a","d","i","t","i","o","n","a","l"," ",
                         "s","w","e","e","t","s">>],
        [region |-> <<"r","a","y","a","l","a","s","e","e","m","a">>,
         variation |-> <<"F","o","c","u","s"," ","o","n"," ","s","i","m","p","l","e",","," ","r","u","s",
                         "t","i","c"," ","p","r","e","p","a","r","a","t","i","o","n","s"," ","w","i","t",
                         "h"," ","l","o","c","a","l"," ","g","r","a","i","n","s">>] >>],
    [name |-> <<"U","g","a","d","i">>,
     culturalMeaning |-> <<"T","e","l","u","g","u"," ","N","e","w"," ","Y","e","a","r"," ","s","y","m","b",
                           "o","l","i","z","i","n","g"," ","n","e","w"," ","b","e","g","i","n","n","i","n",
                           "g","s"," ","a","n","d"," ","t","h","e"," ","b","a","l","a","n","c","e"," ","o",
                           "f"," ","l","i","f","e"," ","e","x","p","e","r","i","e","n","c","e","s">>,
     associatedFoods |-> << <<"U","g","a","d","i"," ","P","a","c","h","a","d","i">> >>,
     foodSymbolism |-> <<"S","i","x"," ","t","a","s","t","e","s"," ","r","e","p","r","e","s","e","n","t",
                         " ","t","h","e"," ","f","u","l","l"," ","s","p","e","c","t","r","u","m"," ","o",
                         "f"," ","l","i","f","e"," ","e","x","p","e","r","i","e","n","c","e","s"," ","-",
                         " ","s","w","e","e","t",","," ","s","o","u","r",","," ","s","a","l","t","y",",",
                         " ","b","i","t","t","e","r",","," ","s","p","i","c","y",","," ","a","n","d"," ",
                         "a","s","t","r","i","n","g","e","n","t">>,
     emotionalTone |-> <<"H","o","p","e"," ","a","n","d"," ","r","e","n","e","w","a","l">>],
    [name |-> <<"V","i","n","a","y","a","k","a"," ","C","h","a","v","i","t","h","i">>,
     culturalMeaning |-> <<"G","a","n","e","s","h"," ","w","o","r","s","h","i","p"," ","c","e","l","e","b",
                           "r","a","t","i","n","g"," ","w","i","s","d","o","m",","," ","p","r","o","s","p",
                           "e","r","i","t","y",","," ","a","n","d"," ","r","e","m","o","v","a","l"," ","o",
                           "f"," ","o","b","s","t","a","c","l","e","s">>,
     associatedFoods |-> << <<"M","o","d","a","k","a","m">> >>,
     foodSymbolism |-> <<"M","o","d","a","k","a","m"," ","r","e","p","r","e","s","e","n","t","s"," ","t",
                         "h","e"," ","s","w","e","e","t","n","e","s","s"," ","o","f"," ","d","e","v","o",
                         "t","i","o","n"," ","a","n","d"," ","L","o","r","d"," ","G","a","n","e","s","h",
                         "a","'","s"," ","f","a","v","o","r","i","t","e"," ","o","f","f","e","r","i","n",
                         "g">>,
     emotionalTone |-> <<"J","o","y"," ","a","n","d"," ","c","o","m","m","u","n","i","t","y"," ","c","e",
                         "l","e","b","r","a","t","i","o","n">>] >>

emotionMappings == <<
    [emotion |-> <<"s","a","d">>, recommendedFood |-> <<"P","a","p","p","u"," ","w","i","t","h"," ","A","v","a","k","a","y","a">>,
     emotionalLogic |-> <<"C","o","m","f","o","r","t"," ","f","o","o","d"," ","t","h","a","t"," ","b","r",
                          "i","n","g","s"," ","n","o","s","t","a","l","g","i","a"," ","a","n","d"," ","w",
                          "a","r","m","t","h",","," ","l","i","k","e"," ","m","o","t","h","e","r","'","s",
                          " ","c","o","o","k","i","n","g">>,
     homeVsStreet |-> <<"h","o","m","e">>],
    [emotion |-> <<"s","i","c","k">>, recommendedFood |-> <<"R","a","s","a","m">>,
     emotionalLogic |-> <<"L","i","g","h","t",","," ","h","e","a","l","i","n","g"," ","p","r","o","p","e",
                          "r","t","i","e","s"," ","w","i","t","h"," ","d","i","g","e","s","t","i","v","e",
                          " ","b","e","n","e","f","i","t","s"," ","a","n","d"," ","w","a","r","m","t","h">>,
     homeVsStreet |-> <<"h","o","m","e">>],
    [emotion |-> <<"h","a","p","p","y">>, recommendedFood |-> <<"B","i","r","y","a","n","i">>,
     emotionalLogic |-> <<"C","e","l","e","b","r","a","t","o","r","y"," ","d","i","s","h"," ","t","h","a",
                          "t"," ","r","e","p","r","e","s","e","n","t","s"," ","a","b","u","n","d","a","n",
                          "c","e"," ","a","n","d"," ","f","e","s","t","i","v","e"," ","m","o","o","d">>,
     homeVsStreet |-> <<"b","o","t","h">>],
    [emotion |-> <<"a","n","g","r","y">>, recommendedFood |-> <<"C","u","r","d"," ","R","i","c","e">>,
     emotionalLogic |-> <<"C","o","o","l","i","n","g"," ","e","f","f","e","c","t"," ","t","h","a","t"," ",
                          "c","a","l","m","s"," ","t","h","e"," ","m","i","n","d"," ","a","n","d"," ","r",
                          "e","d","u","c","e","s"," ","h","e","a","t"," ","i","n"," ","t","h","e"," ","b",
                          "o","d","y">>,
     homeVsStreet |-> <<"h","o","m","e">>],
    [emotion |-> <<"t","i","r","e","d">>, recommendedFood |-> <<"C","o","f","f","e","e"," ","w","i","t","h"," ","P","u","n","u","g","u","l","u">>,
     emotionalLogic |-> <<"E","n","e","r","g","y"," ","b","o","o","s","t"," ","f","r","o","m"," ","c","a",
                          "f","f","e","i","n","e"," ","c","o","m","b","i","n","e","d"," ","w","i","t","h",
                          " ","s","a","t","i","s","f","y","i","n","g"," ","e","v","e","n","i","n","g"," ",
                          "s","n","a","c","k">>,
     homeVsStreet |-> <<"s","t","r","e","e","t">>] >>

---------------------------------------------------------------------------
\* DataValidator.validateDataCompleteness

RECURSIVE missingErrors(_, _, _)
\* for (const x of required) if (!provided.includes(x)) errors.push(prefix + x)
missingErrors(required, provided, prefix) ==
    IF required = <<>> THEN <<>>
    ELSE (IF Head(required) \in provided THEN <<>> ELSE <<prefix \o Head(required)>>)
         \o missingErrors(Tail(required), provided, prefix)

requiredEmotions == << <<"s","a","d">>, <<"s","i","c","k">>, <<"h","a","p","p","y">>, <<"a","n","g","r","y">>, <<"t","i","r","e","d">> >>

requiredCities == << <<"v","i","s","a","k","h","a","p","a","t","n","a","m">>, <<"v","i","j","a","y","a","w","a","d","a">>, <<"g","u","n","t","u","r">>, <<"t","i","r","u","p","a","t","i">> >>

validateDataCompleteness(data) ==
    LET providedEmotions == {toLowerCase(data.emotions[i].emotion) : i \in DOMAIN data.emotions}
        providedCities == {toLowerCase(data.food[i].city) : i \in DOMAIN data.food}
        errors ==
            (IF Len(data.slang) = 0 THEN << <<"N","o"," ","s","l","a","n","g"," ","d","a","t","a"," ","p","r","o","v","i","d",
                                              "e","d">> >> ELSE <<>>)
            \o (IF Len(data.food) = 0 THEN << <<"N","o"," ","f","o","o","d"," ","d","a","t","a"," ","p","r","o","v","i","d","e",
                                                "d">> >> ELSE <<>>)
            \o (IF Len(data.festivals) = 0 THEN << <<"N","o"," ","f","e","s","t","i","v","a","l"," ","d","a","t","a"," ","p","r","o",
                                                     "v","i","d","e","d">> >> ELSE <<>>)
            \o (IF Len(data.emotions) = 0
                THEN << <<"N","o"," ","e","m","o","t","i","o","n","-","f","o","o","d"," ","m","a","p","p",
                          "i","n","g"," ","d","a","t","a"," ","p","r","o","v","i","d","e","d">> >> ELSE <<>>)
            \o missingErrors(requiredEmotions, providedEmotions,
                             <<"M","i","s","s","i","n","g"," ","r","e","q","u","i","r","e","d"," ","e","m","o",
                               "t","i","o","n"," ","m","a","p","p","i","n","g",":"," ">>)
            \o missingErrors(requiredCities, providedCities,
                             <<"M","i","s","s","i","n","g"," ","f","o","o","d"," ","d","a","t","a"," ","f","o",
                               "r"," ","r","e","q","u","i","r","e","d"," ","c","i","t","y",":"," ">>)
    IN  [isValid |-> Len(errors) = 0, errors |-> errors]

---------------------------------------------------------------------------
\* CulturalDatabaseImpl: construction

\* entries.forEach(e => map.set(e[field].toLowerCase(), e)): a later entry with the
\* same key replaces the earlier one
setEach(map, entries, field) ==
    LET keyOf(i) == toLowerCase(entries[i][field])
        ks == {keyOf(i) : i \in DOMAIN entries}
        last(k) == CHOOSE i \in DOMAIN entries :
                      keyOf(i) = k /\ \A j \in DOMAIN entries : keyOf(j) = k => j <= i
    IN  [k \in (DOMAIN map) \cup ks |-> IF k \in ks THEN entries[last(k)] ELSE map[k]]

\* foods.forEach(food => { if (!map.has(cityKey)) map.set(cityKey, []);
\*                         map.get(cityKey).push(food) })
pushEach(map, foods) ==
    LET ks == {toLowerCase(foods[i].city) : i \in DOMAIN foods}
        ofCity(k) == SelectSeq(foods, LAMBDA food : toLowerCase(food.city) = k)
    IN  [k \in (DOMAIN map) \cup ks |->
            (IF k \in DOMAIN map THEN map[k] ELSE <<>>) \o ofCity(k)]

\* the four maps as the constructor creates them (new Map() each)
emptyMaps == [slangData |-> <<>>, foodData |-> <<>>, festivalData |-> <<>>,
              emotionFoodData |-> <<>>]

loadFromParsedData(this, data) ==
    [slangData |-> setEach(this.slangData, data.slang, "term"),
     foodData |-> pushEach(this.foodData, data.food),
     festivalData |-> setEach(this.festivalData, data.festivals, "name"),
     emotionFoodData |-> setEach(this.emotionFoodData, data.emotions, "emotion")]

\* loadSlangData, loadFoodData, loadFestivalData, loadEmotionFoodData in turn; none of
\* them clears the map it fills
loadHardcodedData(this) ==
    [slangData |-> setEach(this.slangData, slangEntries, "term"),
     foodData |-> pushEach(this.foodData, foodEntries),
     festivalData |-> setEach(this.festivalData, festivalEntries, "name"),
     emotionFoodData |-> setEach(this.emotionFoodData, emotionMappings, "emotion")]

\* loadCulturalData without its catch clause: the exception of parseProductMd escapes
loadCulturalData_NoCatch(this, parsed) ==
    IF parsed.threw
    THEN [maps |-> this, isLoaded |-> FALSE, escaped |-> TRUE]
    ELSE [maps |-> loadFromParsedData(this, parsed.data), isLoaded |-> TRUE,
          escaped |-> FALSE]

\* loadCulturalData that trusts whatever was parsed (no completeness fallback)
loadCulturalData_NoFallback(this, parsed) ==
    IF parsed.threw
    THEN [maps |-> loadHardcodedData(this), isLoaded |-> TRUE, escaped |-> FALSE]
    ELSE [maps |-> loadFromParsedData(this, parsed.data), isLoaded |-> TRUE,
          escaped |-> FALSE]

\* parsed is the outcome of this.parser.parseProductMd(): it threw (the file could not
\* be read), or it returned the parsed collections.  The result is the state the
\* constructor leaves: the maps, isLoaded, and whether an exception escaped it.
loadCulturalData(this, parsed) ==
    IF parsed.threw
    THEN \* catch (error): fall back to the hardcoded data
         [maps |-> loadHardcodedData(this), isLoaded |-> TRUE, escaped |-> FALSE]
    ELSE LET loaded == loadFromParsedData(this, parsed.data)
             validation == validateDataCompleteness(parsed.data)
         IN  [maps |-> IF ~validation.isValid THEN loadHardcodedData(loaded) ELSE loaded,
              isLoaded |-> TRUE, escaped |-> FALSE]

---------------------------------------------------------------------------
\* CulturalDatabaseImpl: lookups (this carries the four maps and isLoaded)

\* a getSlangInfo that also answers a term that is part of a stored key
getSlangInfo_Fuzzy(this, term) ==
    LET partial == {k \in DOMAIN this.slangData : includes(k, toLowerCase(term))}
    IN  IF ~this.isLoaded \/ partial = {} THEN Null
        ELSE this.slangData[CHOOSE k \in partial : TRUE]

getSlangInfo(this, term) ==
    IF ~this.isLoaded THEN Null   \* createDatabaseError is thrown and caught
    ELSE IF toLowerCase(term) \in DOMAIN this.slangData
         THEN this.slangData[toLowerCase(term)] ELSE Null

getFestivalInfo(this, festival) ==
    IF ~this.isLoaded THEN Null
    ELSE IF toLowerCase(festival) \in DOMAIN this.festivalData
         THEN this.festivalData[toLowerCase(festival)] ELSE Null

getEmotionFoodMapping(this, emotion) ==
    IF ~this.isLoaded THEN Null
    ELSE IF toLowerCase(emotion) \in DOMAIN this.emotionFoodData
         THEN this.emotionFoodData[toLowerCase(emotion)] ELSE Null

spiceLevels == [s \in { <<"l","o","w">>, <<"m","e","d","i","u","m">>, <<"h","i","g","h">>, <<"e","x","t","r","e","m","e">> } |->
                   CASE s = <<"l","o","w">> -> 1 [] s = <<"m","e","d","i","u","m">> -> 2
                     [] s = <<"h","i","g","h">> -> 3 [] s = <<"e","x","t","r","e","m","e">> -> 4]

timeMapping == [t \in { <<"m","o","r","n","i","n","g">>, <<"a","f","t","e","r","n","o","o","n">>, <<"e","v","e","n","i","n","g">>, <<"n","i","g","h","t">> } |->
                   CASE t = <<"m","o","r","n","i","n","g">> -> << <<"M","o","r","n","i","n","g">>, <<"m","o","r","n","i","n","g">> >>
                     [] t = <<"a","f","t","e","r","n","o","o","n">> -> << <<"L","u","n","c","h">>, <<"l","u","n","c","h">> >>
                     [] t = <<"e","v","e","n","i","n","g">> -> << <<"E","v","e","n","i","n","g">>, <<"e","v","e","n","i","n","g">>, <<"A","n","y">>, <<"a","n","y">> >>
                     [] t = <<"n","i","g","h","t">> -> << <<"E","v","e","n","i","n","g">>, <<"e","v","e","n","i","n","g">>, <<"A","n","y">>, <<"a","n","y">> >>]

\* foodFilter without the spice ceiling
foodFilter_AnySpice(food, preferences) ==
    LET dietary == IF "dietary" \in DOMAIN preferences THEN preferences.dietary ELSE <<>>
        hasChicken == includes(toLowerCase(food.name), <<"c","h","i","c","k","e","n">>)
        hasTime == "timeOfDay" \in DOMAIN preferences /\ preferences.timeOfDay # <<>>
        validTimes == IF toLowerCase(preferences.timeOfDay) \in DOMAIN timeMapping
                      THEN timeMapping[toLowerCase(preferences.timeOfDay)] ELSE <<>>
    IN  /\ ~(dietary = <<"v","e","g">> /\ hasChicken)
        /\ ~(dietary = <<"n","o","n","-","v","e","g">> /\ ~hasChicken)
        /\ hasTime => \E i \in DOMAIN validTimes :
                          includes(toLowerCase(food.bestTime), toLowerCase(validTimes[i]))

\* the predicate of cityFoods.filter; an absent preference field is undefined
foodFilter(food, preferences) ==
    LET dietary == IF "dietary" \in DOMAIN preferences THEN preferences.dietary ELSE <<>>
        hasChicken == includes(toLowerCase(food.name), <<"c","h","i","c","k","e","n">>)
        \* userSpiceLevel < foodSpiceLevel, false when either side is undefined
        tooSpicy == /\ "spiceLevel" \in DOMAIN preferences
                    /\ preferences.spiceLevel \in DOMAIN spiceLevels
                    /\ food.spiceLevel \in DOMAIN spiceLevels
                    /\ spiceLevels[preferences.spiceLevel] < spiceLevels[food.spiceLevel]
        hasTime == "timeOfDay" \in DOMAIN preferences /\ preferences.timeOfDay # <<>>
        validTimes == IF toLowerCase(preferences.timeOfDay) \in DOMAIN timeMapping
                      THEN timeMapping[toLowerCase(preferences.timeOfDay)] ELSE <<>>
        foodBestTime == toLowerCase(food.bestTime)
    IN  IF dietary = <<"v","e","g">> /\ hasChicken THEN FALSE
        ELSE IF dietary = <<"n","o","n","-","v","e","g">> /\ ~hasChicken THEN hasChicken
        ELSE IF tooSpicy THEN FALSE
        ELSE IF hasTime /\ ~\E i \in DOMAIN validTimes :
                               includes(foodBestTime, toLowerCase(validTimes[i]))
             THEN FALSE
        ELSE TRUE

getFoodInfo(this, city, preferences) ==
    IF ~this.isLoaded THEN <<>>
    ELSE LET cityFoods == IF toLowerCase(city) \in DOMAIN this.foodData
                          THEN this.foodData[toLowerCase(city)] ELSE <<>>
         IN  SelectSeq(cityFoods, LAMBDA food : foodFilter(food, preferences))

---------------------------------------------------------------------------
\* ErrorHandler: closest match and the fallback responses.  A "string | null" result
\* is a sequence of at most one string: <<>> is null.  The scores 0.8, 0.2, 0.1 and the
\* threshold 0.3 are counted in tenths.

RECURSIVE findClosestMatchFrom_NoThreshold(_, _, _, _, _)
\* the loop of findClosestMatch without the threshold of 0.3
findClosestMatchFrom_NoThreshold(target, candidates, i, bestMatch, bestScore) ==
    IF i > Len(candidates) THEN bestMatch
    ELSE LET candidate == candidates[i]
             targetLower == toLowerCase(target)
             candidateLower == toLowerCase(candidate)
             contains == IF includes(candidateLower, targetLower)
                            \/ includes(targetLower, candidateLower) THEN 8 ELSE 0
             \* targetLower[0] === candidateLower[0] (both undefined when both are empty)
             first == IF \/ (Len(targetLower) = 0 /\ Len(candidateLower) = 0)
                         \/ (/\ Len(targetLower) > 0 /\ Len(candidateLower) > 0
                             /\ targetLower[1] = candidateLower[1]) THEN 2 ELSE 0
             lengthDiff == IF Len(target) >= Len(candidate)
                           THEN Len(target) - Len(candidate)
                           ELSE Len(candidate) - Len(target)
             near == IF lengthDiff <= 2 THEN 1 ELSE 0
             score == contains + first + near
         IN  IF targetLower = candidateLower THEN <<candidate>>
             ELSE IF score > bestScore
                  THEN findClosestMatchFrom_NoThreshold(target, candidates, i + 1, <<candidate>>, score)
                  ELSE findClosestMatchFrom_NoThreshold(target, candidates, i + 1, bestMatch, bestScore)

RECURSIVE findClosestMatchFrom_LastTie(_, _, _, _, _)
\* the loop of findClosestMatch where an equal score replaces the best match
findClosestMatchFrom_LastTie(target, candidates, i, bestMatch, bestScore) ==
    IF i > Len(candidates) THEN bestMatch
    ELSE LET candidate == candidates[i]
             targetLower == toLowerCase(target)
             candidateLower == toLowerCase(candidate)
             contains == IF includes(candidateLower, targetLower)
                            \/ includes(targetLower, candidateLower) THEN 8 ELSE 0
             \* targetLower[0] === candidateLower[0] (both undefined when both are empty)
             first == IF \/ (Len(targetLower) = 0 /\ Len(candidateLower) = 0)
                         \/ (/\ Len(targetLower) > 0 /\ Len(candidateLower) > 0
                             /\ targetLower[1] = candidateLower[1]) THEN 2 ELSE 0
             lengthDiff == IF Len(target) >= Len(candidate)
                           THEN Len(target) - Len(candidate)
                           ELSE Len(candidate) - Len(target)
             near == IF lengthDiff <= 2 THEN 1 ELSE 0
             score == contains + first + near
         IN  IF targetLower = candidateLower THEN <<candidate>>
             ELSE IF score >= bestScore /\ score >= 3
                  THEN findClosestMatchFrom_LastTie(target, candidates, i + 1, <<candidate>>, score)
                  ELSE findClosestMatchFrom_LastTie(target, candidates, i + 1, bestMatch, bestScore)

RECURSIVE findClosestMatchFrom(_, _, _, _, _)
\* the for loop of findClosestMatch from candidate i on
findClosestMatchFrom(target, candidates, i, bestMatch, bestScore) ==
    IF i > Len(candidates) THEN bestMatch
    ELSE LET candidate == candidates[i]
             targetLower == toLowerCase(target)
             candidateLower == toLowerCase(candidate)
             contains == IF includes(candidateLower, targetLower)
                            \/ includes(targetLower, candidateLower) THEN 8 ELSE 0
             \* targetLower[0] === candidateLower[0] (both undefined when both are empty)
             first == IF \/ (Len(targetLower) = 0 /\ Len(candidateLower) = 0)
                         \/ (/\ Len(targetLower) > 0 /\ Len(candidateLower) > 0
                             /\ targetLower[1] = candidateLower[1]) THEN 2 ELSE 0
             lengthDiff == IF Len(target) >= Len(candidate)
                           THEN Len(target) - Len(candidate)
                           ELSE Len(candidate) - Len(target)
             near == IF lengthDiff <= 2 THEN 1 ELSE 0
             score == contains + first + near
         IN  IF targetLower = candidateLower THEN <<candidate>>
             ELSE IF score > bestScore /\ score >= 3
                  THEN findClosestMatchFrom(target, candidates, i + 1, <<candidate>>, score)
                  ELSE findClosestMatchFrom(target, candidates, i + 1, bestMatch, bestScore)

findClosestMatch(target, candidates) == findClosestMatchFrom(target, candidates, 1, <<>>, 0)

knownSlang == << <<"A","r","e","y"," ","B","a","b","o","i">>, <<"D","o","o","l","a"," ","T","e","e","r","i","n","d","a">>, <<"T","a","g","g","e","d","e"," ","L","e">>, <<"L","i","t","e"," ","T","e","e","s","k","o">>,
                 <<"C","h","a","l","a"," ","S","c","e","n","e"," ","U","n","d","i">> >>

knownCities == << <<"V","i","s","a","k","h","a","p","a","t","n","a","m">>, <<"V","i","j","a","y","a","w","a","d","a">>, <<"G","u","n","t","u","r">>, <<"T","i","r","u","p","a","t","i">> >>

knownFestivals == << <<"S","a","n","k","r","a","n","t","i">>, <<"U","g","a","d","i">>, <<"V","i","n","a","y","a","k","a"," ","C","h","a","v","i","t","h","i">> >>

knownEmotions == << <<"s","a","d">>, <<"s","i","c","k">>, <<"h","a","p","p","y">>, <<"a","n","g","r","y">>, <<"t","i","r","e","d">> >>

createSlangFallback(term) ==
    LET closestMatch == findClosestMatch(term, knownSlang)
    IN  [content |->
            <<"I"," ","d","o","n","'","t"," ","h","a","v","e"," ","s","p","e","c","i","f","i",
              "c"," ","i","n","f","o","r","m","a","t","i","o","n"," ","a","b","o","u","t"," ",
              "\"">> \o term
            \o <<"\""," ","i","n"," ","m","y"," ","c","u","l","t","u","r","a","l"," ","k","n","o",
                 "w","l","e","d","g","e",","," ">>
            \o (IF closestMatch # <<>>
                THEN <<"b","u","t"," ","i","t"," ","s","o","u","n","d","s"," ","s","i","m","i","l","a",
                       "r"," ","t","o"," ","\"">> \o closestMatch[1]
                     \o <<"\""," ","w","h","i","c","h"," ","i","s"," ","a","u","t","h","e","n","t","i","c",
                          " ","A","n","d","h","r","a"," ","s","l","a","n","g","."," ">>
                ELSE <<>>)
            \o <<"T","h","e","s","e"," ","e","x","p","r","e","s","s","i","o","n","s"," ","u","s",
                 "u","a","l","l","y"," ","c","a","r","r","y"," ","d","e","e","p"," ","e","m","o",
                 "t","i","o","n","a","l"," ","m","e","a","n","i","n","g"," ","i","n"," ","o","u",
                 "r"," ","c","u","l","t","u","r","e","."," ">>
            \o <<"T","r","y"," ","a","s","k","i","n","g"," ","a","b","o","u","t"," ","c","o","m",
                 "m","o","n"," ","t","e","r","m","s"," ","l","i","k","e"," ","\"","A","r","e","y",
                 " ","B","a","b","o","i","\""," ","o","r"," ","\"","L","i","t","e"," ","T","e","e",
                 "s","k","o","\""," ","f","o","r"," ","a","u","t","h","e","n","t","i","c"," ","e",
                 "x","a","m","p","l","e","s","!">>,
         isApproximation |-> TRUE,
         originalQuery |-> term,
         fallbackReason |-> <<"S","l","a","n","g"," ","t","e","r","m"," ","n","o","t"," ","f","o","u","n","d",
                              " ","i","n"," ","c","u","l","t","u","r","a","l"," ","d","a","t","a","b","a","s",
                              "e">>]

\* createFoodFallback that names only the closest known city
createFoodFallback_ClosestOnly(city, preferences) ==
    LET closestCity == findClosestMatch(city, knownCities)
        named == IF closestCity # <<>> THEN closestCity[1] ELSE <<>>
    IN  [content |-> <<"I"," ","d","o","n","'","t"," ","h","a","v","e"," ","s","p","e","c","i","f","i",
                       "c"," ","f","o","o","d"," ","r","e","c","o","m","m","e","n","d","a","t","i","o",
                       "n","s"," ","f","o","r"," ">> \o named
                     \o <<" ","T","r","y"," ","e","x","p","l","o","r","i","n","g"," ","p","o","p","u","l",
                          "a","r"," ","c","i","t","i","e","s"," ","l","i","k","e"," ","V","i","s","a","k",
                          "h","a","p","a","t","n","a","m",","," ","V","i","j","a","y","a","w","a","d","a",
                          ","," ","o","r"," ","G","u","n","t","u","r"," ","f","o","r"," ","a","u","t","h",
                          "e","n","t","i","c"," ","r","e","c","o","m","m","e","n","d","a","t","i","o","n",
                          "s","!">>,
         isApproximation |-> TRUE,
         originalQuery |-> named,
         fallbackReason |-> <<"C","i","t","y"," ","n","o","t"," ","f","o","u","n","d"," ","i","n"," ","f","o",
                              "o","d"," ","d","a","t","a","b","a","s","e">>]

createFoodFallback(city, preferences) ==
    LET closestCity == findClosestMatch(city, knownCities)
        spiceLevel == IF "spiceLevel" \in DOMAIN preferences /\ preferences.spiceLevel # <<>>
                      THEN preferences.spiceLevel ELSE <<"m","e","d","i","u","m">>
        dietary == IF "dietary" \in DOMAIN preferences /\ preferences.dietary # <<>>
                   THEN preferences.dietary ELSE <<"a","n","y">>
    IN  [content |->
            <<"I"," ","d","o","n","'","t"," ","h","a","v","e"," ","s","p","e","c","i","f","i",
              "c"," ","f","o","o","d"," ","r","e","c","o","m","m","e","n","d","a","t","i","o",
              "n","s"," ","f","o","r"," ">> \o city \o <<" ">>
            \o (IF closestCity # <<>>
                THEN <<"b","u","t"," ">> \o closestCity[1] \o <<" ","h","a","s"," ","s","i","m","i","l","a","r"," ","A","n","d","h","r","a"," ",
                                                     "c","u","i","s","i","n","e","!"," ">>
                ELSE <<>>)
            \o <<"F","o","r"," ">> \o dietary \o <<" ","p","r","e","f","e","r","e","n","c","e","s"," ","w","i","t","h"," ">> \o spiceLevel
            \o <<" ","s","p","i","c","e"," ","l","e","v","e","l",","," ">>
            \o <<"A","n","d","h","r","a"," ","c","u","i","s","i","n","e"," ","a","l","w","a","y",
                 "s"," ","h","a","s"," ","s","o","m","e","t","h","i","n","g"," ","d","e","l","i",
                 "c","i","o","u","s","."," ">>
            \o <<"T","r","y"," ","e","x","p","l","o","r","i","n","g"," ","p","o","p","u","l","a",
                 "r"," ","c","i","t","i","e","s"," ","l","i","k","e"," ","V","i","s","a","k","h",
                 "a","p","a","t","n","a","m",","," ","V","i","j","a","y","a","w","a","d","a",",",
                 " ","o","r"," ","G","u","n","t","u","r"," ","f","o","r"," ","a","u","t","h","e",
                 "n","t","i","c"," ","r","e","c","o","m","m","e","n","d","a","t","i","o","n","s",
                 "!">>,
         isApproximation |-> TRUE,
         originalQuery |-> city,
         fallbackReason |-> <<"C","i","t","y"," ","n","o","t"," ","f","o","u","n","d"," ","i","n"," ","f","o",
                              "o","d"," ","d","a","t","a","b","a","s","e">>]

createFestivalFallback(festival) ==
    LET closestMatch == findClosestMatch(festival, knownFestivals)
    IN  [content |->
            <<"I"," ","d","o","n","'","t"," ","h","a","v","e"," ","d","e","t","a","i","l","e",
              "d"," ","i","n","f","o","r","m","a","t","i","o","n"," ","a","b","o","u","t"," ",
              "\"">> \o festival \o <<"\"",","," ">>
            \o (IF closestMatch # <<>>
                THEN <<"b","u","t"," ","i","t"," ","m","i","g","h","t"," ","b","e"," ","s","i","m","i",
                       "l","a","r"," ","t","o"," ","\"">> \o closestMatch[1]
                     \o <<"\""," ","w","h","i","c","h"," ","i","s"," ","c","e","l","e","b","r","a","t","e",
                          "d"," ","i","n"," ","A","n","d","h","r","a","."," ">>
                ELSE <<>>)
            \o <<"A","n","d","h","r","a"," ","f","e","s","t","i","v","a","l","s"," ","a","r","e",
                 " ","a","l","w","a","y","s"," ","r","i","c","h"," ","i","n"," ","c","u","l","t",
                 "u","r","a","l"," ","m","e","a","n","i","n","g"," ","a","n","d"," ","f","o","o",
                 "d"," ","t","r","a","d","i","t","i","o","n","s","!"," ">>
            \o <<"E","a","c","h"," ","c","e","l","e","b","r","a","t","i","o","n"," ","b","r","i",
                 "n","g","s"," ","f","a","m","i","l","i","e","s"," ","t","o","g","e","t","h","e",
                 "r"," ","w","i","t","h"," ","s","p","e","c","i","a","l"," ","p","r","e","p","a",
                 "r","a","t","i","o","n","s","."," ">>
            \o <<"T","r","y"," ","a","s","k","i","n","g"," ","a","b","o","u","t"," ","S","a","n",
                 "k","r","a","n","t","i",","," ","U","g","a","d","i",","," ","o","r"," ","V","i",
                 "n","a","y","a","k","a"," ","C","h","a","v","i","t","h","i"," ","f","o","r"," ",
                 "d","e","t","a","i","l","e","d"," ","e","x","a","m","p","l","e","s","!">>,
         isApproximation |-> TRUE,
         originalQuery |-> festival,
         fallbackReason |-> <<"F","e","s","t","i","v","a","l"," ","n","o","t"," ","f","o","u","n","d"," ","i",
                              "n"," ","c","u","l","t","u","r","a","l"," ","d","a","t","a","b","a","s","e">>]

createEmotionFallback(emotion) ==
    LET closestMatch == findClosestMatch(emotion, knownEmotions)
    IN  [content |->
            <<"I"," ","d","o","n","'","t"," ","h","a","v","e"," ","a"," ","s","p","e","c","i",
              "f","i","c"," ","f","o","o","d"," ","r","e","c","o","m","m","e","n","d","a","t",
              "i","o","n"," ","f","o","r"," ","\"">> \o emotion \o <<"\"",","," ">>
            \o (IF closestMatch # <<>>
                THEN <<"b","u","t"," ","i","t","'","s"," ","s","i","m","i","l","a","r"," ","t","o"," ",
                       "f","e","e","l","i","n","g"," ","\"">> \o closestMatch[1] \o <<"\"","."," ">>
                ELSE <<>>)
            \o <<"I","n"," ","A","n","d","h","r","a"," ","c","u","l","t","u","r","e",","," ","w",
                 "e"," ","b","e","l","i","e","v","e"," ","f","o","o","d"," ","c","a","n"," ","h",
                 "e","a","l"," ","e","m","o","t","i","o","n","s","."," ">>
            \o <<"G","e","n","e","r","a","l","l","y",","," ","c","o","m","f","o","r","t"," ","f",
                 "o","o","d","s"," ","l","i","k","e"," ","P","a","p","p","u"," ","w","i","t","h",
                 " ","A","v","a","k","a","y","a"," ","w","o","r","k"," ","f","o","r"," ","s","a",
                 "d","n","e","s","s",","," ">>
            \o <<"w","h","i","l","e"," ","c","o","o","l","i","n","g"," ","f","o","o","d","s"," ",
                 "l","i","k","e"," ","C","u","r","d"," ","R","i","c","e"," ","h","e","l","p"," ",
                 "w","i","t","h"," ","a","n","g","e","r","."," ">>
            \o <<"T","r","y"," ","a","s","k","i","n","g"," ","a","b","o","u","t"," ","c","o","m",
                 "m","o","n"," ","e","m","o","t","i","o","n","s"," ","l","i","k","e"," ","s","a",
                 "d",","," ","h","a","p","p","y",","," ","a","n","g","r","y",","," ","o","r"," ",
                 "t","i","r","e","d","!">>,
         isApproximation |-> TRUE,
         originalQuery |-> emotion,
         fallbackReason |-> <<"E","m","o","t","i","o","n"," ","n","o","t"," ","f","o","u","n","d"," ","i","n",
                              " ","m","a","p","p","i","n","g"," ","d","a","t","a","b","a","s","e">>]

---------------------------------------------------------------------------
\* CulturalDatabaseImpl: lookups with fallback.  A returned array is wrapped as
\* [array |-> ...], which tells it from a FallbackResponse record.

getSlangInfoWithFallback(this, term) ==
    LET slangInfo == getSlangInfo(this, term)
    IN  IF slangInfo # Null THEN slangInfo ELSE createSlangFallback(term)

getFoodInfoWithFallback(this, city, preferences) ==
    LET foodInfo == getFoodInfo(this, city, preferences)
    IN  IF Len(foodInfo) > 0 THEN [array |-> foodInfo]
        ELSE createFoodFallback(city, preferences)

getFestivalInfoWithFallback(this, festival) ==
    LET festivalInfo == getFestivalInfo(this, festival)
    IN  IF festivalInfo # Null THEN festivalInfo ELSE createFestivalFallback(festival)

getEmotionFoodMappingWithFallback(this, emotion) ==
    LET mapping == getEmotionFoodMapping(this, emotion)
    IN  IF mapping # Null THEN mapping ELSE createEmotionFallback(emotion)

---------------------------------------------------------------------------
\* The knowledge store as a state machine

VARIABLES
    productMd,        \* outcome of this.parser.parseProductMd() at the store's path
    slangData,        \* Map: lower-cased term -> SlangInfo
    foodData,         \* Map: lower-cased city -> FoodInfo[]
    festivalData,     \* Map: lower-cased name -> FestivalInfo
    emotionFoodData,  \* Map: lower-cased emotion -> EmotionFoodMapping
    isLoaded,
    pc,               \* "new" until the constructor has run, then "ready" or "failed"
    lastCall,         \* the last method called on the store: [op, args, ret]
    response,         \* the CulturalResponse handed to formatResponse
    formatted,        \* the string formatResponse returned
    validation,       \* the result of validateResponseFormat(formatted)
    fpc               \* "idle", "input", "formatted" or "validated"

vars == <<productMd, slangData, foodData, festivalData, emotionFoodData, isLoaded, pc,
          lastCall, response, formatted, validation, fpc>>

formatterVars == <<response, formatted, validation, fpc>>

\* The records parseSlangSection emits for the section text
\*   "Arey Baboi" / Literal: Oh my God / Emotional meaning: Shock / frustration / disbelief
\*   / Usage: Informal / Avoid in formal settings / "Keka" / Meaning: Awesome
\*   / Emotion: Excitement
parsedSlang == <<
    [term |-> <<"A","r","e","y"," ","B","a","b","o","i">>,
     literalMeaning |-> <<"O","h"," ","m","y"," ","G","o","d">>,
     emotionalIntent |-> <<"S","h","o","c","k"," ","/"," ","f","r","u","s","t","r","a","t","i","o","n"," ",
                           "/"," ","d","i","s","b","e","l","i","e","f">>,
     socialAppropriateness |-> <<"I","n","f","o","r","m","a","l",";"," ","A","v","o","i","d"," ","i","n"," ","f",
                                 "o","r","m","a","l"," ","s","e","t","t","i","n","g","s">>,
     formalityLevel |-> <<"f","o","r","m","a","l">>,
     regionalVariations |-> <<>>],
    [term |-> <<"K","e","k","a">>,
     literalMeaning |-> <<"A","w","e","s","o","m","e">>,
     emotionalIntent |-> <<"E","x","c","i","t","e","m","e","n","t">>,
     socialAppropriateness |-> <<"G","e","n","e","r","a","l"," ","u","s","e">>,
     formalityLevel |-> <<"i","n","f","o","r","m","a","l">>,
     regionalVariations |-> <<>>] >>

\* The records parseFoodSection emits for the section text
\*   Visakhapatnam (Vizag) / Punugulu -> medium spice / Vijayawada
\*   / Idli with Karam -> spicy breakfast / Guntur / Mirchi Bajji -> extreme spice
\*   / Tirupati / Pulihora -> mild lunch
parsedFood == <<
    [name |-> <<"P","u","n","u","g","u","l","u">>, city |-> <<"V","i","s","a","k","h","a","p","a","t","n","a","m">>,
     spiceLevel |-> <<"m","e","d","i","u","m">>, bestTime |-> <<"E","v","e","n","i","n","g">>,
     description |-> <<"m","e","d","i","u","m"," ","s","p","i","c","e">>,
     culturalSignificance |-> <<"T","r","a","d","i","t","i","o","n","a","l"," ","V","i","s","a","k","h","a","p",
                                "a","t","n","a","m"," ","s","p","e","c","i","a","l","t","y">>],
    [name |-> <<"I","d","l","i"," ","w","i","t","h"," ","K","a","r","a","m">>, city |-> <<"V","i","j","a","y","a","w","a","d","a">>,
     spiceLevel |-> <<"h","i","g","h">>, bestTime |-> <<"M","o","r","n","i","n","g">>,
     description |-> <<"s","p","i","c","y"," ","b","r","e","a","k","f","a","s","t">>,
     culturalSignificance |-> <<"T","r","a","d","i","t","i","o","n","a","l"," ","V","i","j","a","y","a","w","a",
                                "d","a"," ","s","p","e","c","i","a","l","t","y">>],
    [name |-> <<"M","i","r","c","h","i"," ","B","a","j","j","i">>, city |-> <<"G","u","n","t","u","r">>,
     spiceLevel |-> <<"e","x","t","r","e","m","e">>, bestTime |-> <<"E","v","e","n","i","n","g">>,
     description |-> <<"e","x","t","r","e","m","e"," ","s","p","i","c","e">>,
     culturalSignificance |-> <<"T","r","a","d","i","t","i","o","n","a","l"," ","G","u","n","t","u","r"," ","s",
                                "p","e","c","i","a","l","t","y">>],
    [name |-> <<"P","u","l","i","h","o","r","a">>, city |-> <<"T","i","r","u","p","a","t","i">>,
     spiceLevel |-> <<"l","o","w">>, bestTime |-> <<"L","u","n","c","h">>,
     description |-> <<"m","i","l","d"," ","l","u","n","c","h">>,
     culturalSignificance |-> <<"T","r","a","d","i","t","i","o","n","a","l"," ","T","i","r","u","p","a","t","i",
                                " ","s","p","e","c","i","a","l","t","y">>] >>

\* The records parseFestivalSection emits for the section text
\*   Sankranti / Harvest festival celebrating abundance / Foods: Ariselu, Pongal
\*   / Emotional tone: Family bonding / Dasara / Worship of the goddess / Foods: Payasam
parsedFestivals == <<
    [name |-> <<"S","a","n","k","r","a","n","t","i">>,
     culturalMeaning |-> <<"H","a","r","v","e","s","t"," ","f","e","s","t","i","v","a","l"," ","c","e","l",
                           "e","b","r","a","t","i","n","g"," ","a","b","u","n","d","a","n","c","e">>,
     associatedFoods |-> << <<"A","r","i","s","e","l","u">>, <<"P","o","n","g","a","l">> >>,
     foodSymbolism |-> <<"T","r","a","d","i","t","i","o","n","a","l"," ","f","o","o","d","s"," ","r","e",
                         "p","r","e","s","e","n","t","i","n","g"," ","t","h","e"," ","s","p","i","r","i",
                         "t"," ","o","f"," ","S","a","n","k","r","a","n","t","i">>,
     emotionalTone |-> <<"F","a","m","i","l","y"," ","b","o","n","d","i","n","g">>],
    [name |-> <<"D","a","s","a","r","a">>,
     culturalMeaning |-> <<"W","o","r","s","h","i","p"," ","o","f"," ","t","h","e"," ","g","o","d","d","e",
                           "s","s">>,
     associatedFoods |-> << <<"P","a","y","a","s","a","m">> >>,
     foodSymbolism |-> <<"T","r","a","d","i","t","i","o","n","a","l"," ","f","o","o","d","s"," ","r","e",
                         "p","r","e","s","e","n","t","i","n","g"," ","t","h","e"," ","s","p","i","r","i",
                         "t"," ","o","f"," ","D","a","s","a","r","a">>,
     emotionalTone |-> <<"C","e","l","e","b","r","a","t","o","r","y">>] >>

\* The records parseEmotionSection emits for the section text
\*   Sad -> Pappu + Avakaya / (Comfort, nostalgia) / Sick -> Rasam / (Healing)
\*   / Happy -> Biryani / (Celebration) / Angry -> Curd Rice / (Cooling)
\*   / Excited -> Jalebi / Tired -> Coffee + Punugulu / (Energy)
parsedEmotions == <<
    [emotion |-> <<"s","a","d">>, recommendedFood |-> <<"P","a","p","p","u"," ","+"," ","A","v","a","k","a","y","a">>,
     emotionalLogic |-> <<"C","o","m","f","o","r","t",","," ","n","o","s","t","a","l","g","i","a">>, homeVsStreet |-> <<"h","o","m","e">>],
    [emotion |-> <<"s","i","c","k">>, recommendedFood |-> <<"R","a","s","a","m">>,
     emotionalLogic |-> <<"H","e","a","l","i","n","g">>, homeVsStreet |-> <<"h","o","m","e">>],
    [emotion |-> <<"h","a","p","p","y">>, recommendedFood |-> <<"B","i","r","y","a","n","i">>,
     emotionalLogic |-> <<"C","e","l","e","b","r","a","t","i","o","n">>, homeVsStreet |-> <<"b","o","t","h">>],
    [emotion |-> <<"a","n","g","r","y">>, recommendedFood |-> <<"C","u","r","d"," ","R","i","c","e">>,
     emotionalLogic |-> <<"C","o","o","l","i","n","g">>, homeVsStreet |-> <<"h","o","m","e">>],
    [emotion |-> <<"e","x","c","i","t","e","d">>, recommendedFood |-> <<"J","a","l","e","b","i">>,
     emotionalLogic |-> <<"J","a","l","e","b","i"," ","i","s"," ","c","u","l","t","u","r","a","l","l","y",
                          " ","a","p","p","r","o","p","r","i","a","t","e"," ","f","o","r"," ","e","x","c",
                          "i","t","e","d"," ","f","e","e","l","i","n","g","s">>,
     homeVsStreet |-> <<"b","o","t","h">>],
    [emotion |-> <<"t","i","r","e","d">>, recommendedFood |-> <<"C","o","f","f","e","e"," ","+"," ","P","u","n","u","g","u","l","u">>,
     emotionalLogic |-> <<"E","n","e","r","g","y">>, homeVsStreet |-> <<"s","t","r","e","e","t">>] >>

\* What parseProductMd returns for documents that hold all or a prefix of the lines
\* above in their sections (a document without a slang section, without the Tirupati
\* lines, without the Tired line, ...)
ParsedDocuments ==
    {[slang |-> s, food |-> f, festivals |-> parsedFestivals, emotions |-> e] :
        s \in {<<>>, parsedSlang},
        f \in {SubSeq(parsedFood, 1, Len(parsedFood) - 1), parsedFood},
        e \in {SubSeq(parsedEmotions, 1, Len(parsedEmotions) - 2),
               SubSeq(parsedEmotions, 1, Len(parsedEmotions) - 1), parsedEmotions}}

\* parseProductMd throws when the file cannot be read, else returns the parsed data
ParseOutcomes == {[threw |-> TRUE]} \cup {[threw |-> FALSE, data |-> d] : d \in ParsedDocuments}

SlangQueries == { <<"A","r","e","y"," ","B","a","b","o","i">>, <<"A","R","E","Y"," ","B","A","B","O","I">>, <<"a","r","e","y">>, <<"K","e","k","a">>, <<"M","a","s","s">>, <<>> }

CityQueries == { <<"G","u","n","t","u","r">>, <<"T","I","R","U","P","A","T","I">>, <<"G","u","n","t">>, <<"H","y","d","e","r","a","b","a","d">> }

FestivalQueries == { <<"U","g","a","d","i">>, <<"u","G","A","D","I">>, <<"D","a","s","a","r","a">>, <<"D","i","w","a","l","i">> }

EmotionQueries == { <<"t","i","r","e","d">>, <<"T","i","r","e","d">>, <<"t","i","r","e">>, <<"e","x","c","i","t","e","d">>, <<"b","o","r","e","d">> }

FoodPreferenceSamples ==
    { [spiceLevel |-> <<"e","x","t","r","e","m","e">>, dietary |-> <<"a","n","y">>],
      [spiceLevel |-> <<"l","o","w">>, dietary |-> <<"a","n","y">>],
      [spiceLevel |-> <<"m","e","d","i","u","m">>, dietary |-> <<"v","e","g">>],
      [spiceLevel |-> <<"h","i","g","h">>, dietary |-> <<"n","o","n","-","v","e","g">>],
      [spiceLevel |-> <<"e","x","t","r","e","m","e">>, dietary |-> <<"a","n","y">>, timeOfDay |-> <<"m","o","r","n","i","n","g">>],
      [spiceLevel |-> <<"e","x","t","r","e","m","e">>, dietary |-> <<"a","n","y">>, timeOfDay |-> <<"n","i","g","h","t">>] }

\* the store object as the methods see it
This == [slangData |-> slangData, foodData |-> foodData, festivalData |-> festivalData,
         emotionFoodData |-> emotionFoodData, isLoaded |-> isLoaded]

FormatterIdle ==
    /\ response = Null
    /\ formatted = <<>>
    /\ validation = Null
    /\ fpc = "idle"

\* the field initialisers of the constructor, before loadCulturalData runs
Init ==
    /\ productMd \in ParseOutcomes
    /\ slangData = <<>>
    /\ foodData = <<>>
    /\ festivalData = <<>>
    /\ emotionFoodData = <<>>
    /\ isLoaded = FALSE
    /\ pc = "new"
    /\ lastCall = [op |-> "none", args |-> <<>>, ret |-> Null]
    /\ FormatterIdle

\* new CulturalDatabaseImpl(path): the constructor runs loadCulturalData
Constructor ==
    /\ pc = "new"
    /\ LET after == loadCulturalData(emptyMaps, productMd)
       IN  /\ slangData' = after.maps.slangData
           /\ foodData' = after.maps.foodData
           /\ festivalData' = after.maps.festivalData
           /\ emotionFoodData' = after.maps.emotionFoodData
           /\ isLoaded' = after.isLoaded
           /\ pc' = IF after.escaped THEN "failed" ELSE "ready"
    /\ lastCall' = [op |-> "constructor", args |-> <<>>, ret |-> Null]
    /\ UNCHANGED <<productMd, formatterVars>>

\* what the lookups and enumerations leave alone: they assign no field of the store
readOnly == <<productMd, slangData, foodData, festivalData, emotionFoodData, isLoaded, pc,
              formatterVars>>

GetSlangInfo ==
    /\ pc = "ready"
    /\ \E term \in SlangQueries :
          lastCall' = [op |-> "getSlangInfo", args |-> <<term>>,
                       ret |-> getSlangInfo(This, term)]
    /\ UNCHANGED readOnly

GetFoodInfo ==
    /\ pc = "ready"
    /\ \E city \in CityQueries, preferences \in FoodPreferenceSamples :
          lastCall' = [op |-> "getFoodInfo", args |-> <<city, preferences>>,
                       ret |-> [array |-> getFoodInfo(This, city, preferences)]]
    /\ UNCHANGED readOnly

GetFestivalInfo ==
    /\ pc = "ready"
    /\ \E festival \in FestivalQueries :
          lastCall' = [op |-> "getFestivalInfo", args |-> <<festival>>,
                       ret |-> getFestivalInfo(This, festival)]
    /\ UNCHANGED readOnly

GetEmotionFoodMapping ==
    /\ pc = "ready"
    /\ \E emotion \in EmotionQueries :
          lastCall' = [op |-> "getEmotionFoodMapping", args |-> <<emotion>>,
                       ret |-> getEmotionFoodMapping(This, emotion)]
    /\ UNCHANGED readOnly

\* Array.from(map.keys()), as the set of the keys
GetAllSlangTerms ==
    /\ pc = "ready"
    /\ lastCall' = [op |-> "getAllSlangTerms", args |-> <<>>,
                    ret |-> [keys |-> DOMAIN slangData]]
    /\ UNCHANGED readOnly

GetAllCities ==
    /\ pc = "ready"
    /\ lastCall' = [op |-> "getAllCities", args |-> <<>>, ret |-> [keys |-> DOMAIN foodData]]
    /\ UNCHANGED readOnly

GetAllFestivals ==
    /\ pc = "ready"
    /\ lastCall' = [op |-> "getAllFestivals", args |-> <<>>,
                    ret |-> [keys |-> DOMAIN festivalData]]
    /\ UNCHANGED readOnly

GetAllEmotions ==
    /\ pc = "ready"
    /\ lastCall' = [op |-> "getAllEmotions", args |-> <<>>,
                    ret |-> [keys |-> DOMAIN emotionFoodData]]
    /\ UNCHANGED readOnly

IsDataLoaded ==
    /\ pc = "ready"
    /\ lastCall' = [op |-> "isDataLoaded", args |-> <<>>, ret |-> [bool |-> isLoaded]]
    /\ UNCHANGED readOnly

\* a getSlangInfoWithFallback that remembers the approximation it built for a miss
GetSlangInfoWithFallback_Caching ==
    /\ pc = "ready"
    /\ \E term \in SlangQueries :
          LET ret == getSlangInfoWithFallback(This, term)
          IN  /\ lastCall' = [op |-> "getSlangInfoWithFallback", args |-> <<term>>,
                              ret |-> ret]
              /\ slangData' = [k \in (DOMAIN slangData) \cup {toLowerCase(term)} |->
                                  IF k \in DOMAIN slangData THEN slangData[k] ELSE ret]
    /\ UNCHANGED <<productMd, foodData, festivalData, emotionFoodData, isLoaded, pc,
                   formatterVars>>

GetSlangInfoWithFallback ==
    /\ pc = "ready"
    /\ \E term \in SlangQueries :
          lastCall' = [op |-> "getSlangInfoWithFallback", args |-> <<term>>,
                       ret |-> getSlangInfoWithFallback(This, term)]
    /\ UNCHANGED readOnly

GetFoodInfoWithFallback ==
    /\ pc = "ready"
    /\ \E city \in CityQueries, preferences \in FoodPreferenceSamples :
          lastCall' = [op |-> "getFoodInfoWithFallback", args |-> <<city, preferences>>,
                       ret |-> getFoodInfoWithFallback(This, city, preferences)]
    /\ UNCHANGED readOnly

GetFestivalInfoWithFallback ==
    /\ pc = "ready"
    /\ \E festival \in FestivalQueries :
          lastCall' = [op |-> "getFestivalInfoWithFallback", args |-> <<festival>>,
                       ret |-> getFestivalInfoWithFallback(This, festival)]
    /\ UNCHANGED readOnly

GetEmotionFoodMappingWithFallback ==
    /\ pc = "ready"
    /\ \E emotion \in EmotionQueries :
          lastCall' = [op |-> "getEmotionFoodMappingWithFallback", args |-> <<emotion>>,
                       ret |-> getEmotionFoodMappingWithFallback(This, emotion)]
    /\ UNCHANGED readOnly

Next ==
    \/ Constructor
    \/ GetSlangInfo
    \/ GetFoodInfo
    \/ GetFestivalInfo
    \/ GetEmotionFoodMapping
    \/ GetAllSlangTerms
    \/ GetAllCities
    \/ GetAllFestivals
    \/ GetAllEmotions
    \/ IsDataLoaded
    \/ GetSlangInfoWithFallback
    \/ GetFoodInfoWithFallback
    \/ GetFestivalInfoWithFallback
    \/ GetEmotionFoodMappingWithFallback

Spec == Init /\ [][Next]_vars

---------------------------------------------------------------------------
\* ResponseFormatter

culturalGreetings ==
    [region \in { <<"c","o","a","s","t","a","l">>, <<"g","u","n","t","u","r">>, <<"r","a","y","a","l","a","s","e","e","m","a">> } |->
        CASE region = <<"c","o","a","s","t","a","l">> ->
                << <<"T","r","u","s","t"," ","m","e">>, <<"Y","o","u"," ","k","n","o","w"," ","w","h","a","t">>, <<"L","e","t"," ","m","e"," ","t","e","l","l"," ","y","o","u">>, <<"H","o","n","e","s","t","l","y"," ","s","p","e","a","k","i","n","g">> >>
          [] region = <<"g","u","n","t","u","r">> ->
                << <<"P","a","k","k","a"," ","g","u","a","r","a","n","t","e","e">>, <<"B","e","l","i","e","v","e"," ","m","e">>, <<"N","o"," ","d","o","u","b","t"," ","a","b","o","u","t"," ","i","t">>,
                   <<"F","i","r","e"," ","g","a"," ","c","h","e","p","p","a","l","i"," ","a","n","t",
                     "e">> >>
          [] region = <<"r","a","y","a","l","a","s","e","e","m","a">> ->
                << <<"S","i","m","p","l","e"," ","g","a"," ","c","h","e","p","p","a","l","i"," ","a",
                     "n","t","e">>, <<"T","r","a","d","i","t","i","o","n","a","l"," ","g","a">>, <<"S","t","r","a","i","g","h","t"," ","f","o","r","w","a","r","d"," ","g","a">>,
                   <<"H","o","n","e","s","t","l","y">> >>]

culturalClosings ==
    [category \in { <<"s","l","a","n","g">>, <<"f","o","o","d">>, <<"f","e","s","t","i","v","a","l">>, <<"e","m","o","t","i","o","n">> } |->
        CASE category = <<"s","l","a","n","g">> ->
                << <<"T","h","a","t","'","s"," ","h","o","w"," ","w","e"," ","e","x","p","r","e","s",
                     "s"," ","o","u","r","s","e","l","v","e","s"," ","i","n"," ","A","n","d","h","r",
                     "a"," ","c","u","l","t","u","r","e","!">>,
                   <<"T","h","i","s"," ","i","s"," ","a","u","t","h","e","n","t","i","c"," ","A","n",
                     "d","h","r","a"," ","w","a","y"," ","o","f"," ","s","p","e","a","k","i","n","g",
                     "!">>,
                   <<"T","h","a","t","'","s"," ","t","h","e"," ","b","e","a","u","t","y"," ","o","f",
                     " ","o","u","r"," ","T","e","l","u","g","u"," ","e","x","p","r","e","s","s","i",
                     "o","n","s","!">> >>
          [] category = <<"f","o","o","d">> ->
                << <<"T","h","i","s"," ","i","s"," ","a","u","t","h","e","n","t","i","c"," ","A","n",
                     "d","h","r","a"," ","t","a","s","t","e"," ","t","h","a","t"," ","l","o","c","a",
                     "l","s"," ","l","o","v","e","!">>,
                   <<"T","h","a","t","'","s"," ","r","e","a","l"," ","A","n","d","h","r","a"," ","f",
                     "l","a","v","o","r"," ","f","o","r"," ","y","o","u","!">>,
                   <<"T","h","i","s"," ","i","s"," ","w","h","a","t"," ","m","a","k","e","s"," ","A",
                     "n","d","h","r","a"," ","c","u","i","s","i","n","e"," ","s","p","e","c","i","a",
                     "l","!">> >>
          [] category = <<"f","e","s","t","i","v","a","l">> ->
                << <<"T","h","a","t","'","s"," ","t","h","e"," ","b","e","a","u","t","y"," ","o","f",
                     " ","A","n","d","h","r","a"," ","f","e","s","t","i","v","a","l"," ","t","r","a",
                     "d","i","t","i","o","n","s","!">>,
                   <<"T","h","i","s"," ","i","s"," ","h","o","w"," ","w","e"," ","c","e","l","e","b",
                     "r","a","t","e"," ","i","n"," ","A","n","d","h","r","a"," ","c","u","l","t","u",
                     "r","e","!">>,
                   <<"T","h","a","t","'","s"," ","t","h","e"," ","r","i","c","h","n","e","s","s"," ",
                     "o","f"," ","o","u","r"," ","c","u","l","t","u","r","a","l"," ","h","e","r","i",
                     "t","a","g","e","!">> >>
          [] category = <<"e","m","o","t","i","o","n">> ->
                << <<"T","h","a","t","'","s"," ","t","h","e"," ","w","i","s","d","o","m"," ","o","f",
                     " ","A","n","d","h","r","a"," ","f","o","o","d"," ","c","u","l","t","u","r","e",
                     "!">>,
                   <<"T","h","i","s"," ","i","s"," ","h","o","w"," ","w","e"," ","h","e","a","l"," ",
                     "t","h","r","o","u","g","h"," ","f","o","o","d"," ","i","n"," ","o","u","r"," ",
                     "t","r","a","d","i","t","i","o","n","!">>,
                   <<"T","h","a","t","'","s"," ","t","h","e"," ","e","m","o","t","i","o","n","a","l",
                     " ","c","o","n","n","e","c","t","i","o","n"," ","w","e"," ","h","a","v","e"," ",
                     "w","i","t","h"," ","f","o","o","d","!">> >>]

\* [,.!?] of the regular expressions
IsPunct(c) == c \in {",", ".", "!", "?"}

\* \b: exactly one of s[i-1] and s[i] is a word character
wordBoundary(s, i) ==
    (i >= 2 /\ i - 1 <= Len(s) /\ IsWordChar(s[i - 1]))
        # (i >= 1 /\ i <= Len(s) /\ IsWordChar(s[i]))

\* t occurs in s at index i, letters compared without case (the i flag)
MatchAtIgnoreCase(s, i, t) ==
    /\ i >= 1
    /\ i + Len(t) - 1 <= Len(s)
    /\ \A j \in 1..Len(t) : toLowerChar(s[i + j - 1]) = toLowerChar(t[j])

\* length of the match of /\b(t1|t2|...)\b/i at index i of s, 0 when there is none;
\* the first alternative that matches is taken
termMatchLen(s, terms, i) ==
    IF ~wordBoundary(s, i) THEN 0
    ELSE LET hits == {k \in DOMAIN terms :
                         /\ MatchAtIgnoreCase(s, i, terms[k])
                         /\ wordBoundary(s, i + Len(terms[k]))}
         IN  IF hits = {} THEN 0
             ELSE Len(terms[CHOOSE k \in hits : \A h \in hits : k <= h])

RECURSIVE removeMatches(_, _, _)
\* s.replace(/\b(t1|t2|...)\b/gi, ''), scanning from index i: the text up to the next
\* match is kept, the match is dropped and the scan goes on behind it
removeMatches(s, terms, i) ==
    LET starts == {j \in i..Len(s) : termMatchLen(s, terms, j) > 0}
        next == CHOOSE j \in starts : \A h \in starts : j <= h
    IN  IF starts = {} THEN SubSeq(s, i, Len(s))
        ELSE SubSeq(s, i, next - 1)
                 \o removeMatches(s, terms, next + termMatchLen(s, terms, next))

RECURSIVE concatRange(_, _, _)
\* the pieces ss[lo], ..., ss[hi] joined
concatRange(ss, lo, hi) ==
    IF lo > hi THEN <<>>
    ELSE IF lo = hi THEN ss[lo]
    ELSE LET mid == (lo + hi) \div 2
         IN  concatRange(ss, lo, mid) \o concatRange(ss, mid + 1, hi)

\* the pieces of ss joined
concatAll(ss) == concatRange(ss, 1, Len(ss))

\* s.replace(/\s+/g, ' ')
collapseSpaces(s) ==
    LET kept == SelectSeq([i \in 1..Len(s) |-> i],
                          LAMBDA i : ~IsSpace(s[i]) \/ i = 1 \/ ~IsSpace(s[i - 1]))
    IN  [k \in 1..Len(kept) |-> IF IsSpace(s[kept[k]]) THEN " " ELSE s[kept[k]]]

\* s.replace(/\s+([,.!?])/g, '$1')
dropSpaceBeforePunct(s) ==
    LET beforePunct(i) == LET j == nextNonSpace(s, i) IN j > 0 /\ IsPunct(s[j])
        kept == SelectSeq([i \in 1..Len(s) |-> i],
                          LAMBDA i : ~(IsSpace(s[i]) /\ beforePunct(i)))
    IN  [k \in 1..Len(kept) |-> s[kept[k]]]

\* s.replace(/([,.!?])([A-Z])/g, '$1 $2')
spaceAfterPunct(s) ==
    concatAll([i \in 1..Len(s) |->
                   IF IsPunct(s[i]) /\ i < Len(s) /\ s[i + 1] \in UpperSet
                   THEN <<s[i], " ">> ELSE <<s[i]>>])

\* s.replace(/P\s*([a-z])/g, (match, letter) => `P ${letter.toUpperCase()}`) for the
\* punctuation mark P
capitalizeAfter(s, mark) ==
    LET startsMatch(i) == s[i] = mark /\ LET j == nextNonSpace(s, i)
                                         IN  j > 0 /\ s[j] \in LowerSet
        inMatch(k) == LET i == prevNonSpace(s, k) IN i > 0 /\ startsMatch(i)
    IN  concatAll([k \in 1..Len(s) |->
                       IF startsMatch(k) THEN <<mark, " ">>
                       ELSE IF IsSpace(s[k]) /\ inMatch(k) THEN <<>>
                       ELSE IF s[k] \in LowerSet /\ inMatch(k) THEN <<toUpperChar(s[k])>>
                       ELSE <<s[k]>>])

\* /^(trust me|you know|let me tell|pakka|believe|honestly|simple|arey|baboi)/i
openingPatterns == << <<"t","r","u","s","t"," ","m","e">>, <<"y","o","u"," ","k","n","o","w">>, <<"l","e","t"," ","m","e"," ","t","e","l","l">>, <<"p","a","k","k","a">>, <<"b","e","l","i","e","v","e">>,
                      <<"h","o","n","e","s","t","l","y">>, <<"s","i","m","p","l","e">>, <<"a","r","e","y">>, <<"b","a","b","o","i">> >>

\* region is <<>> when the response carries none; pick is the index Math.random() draws
addCulturalOpening(content, region, pick) ==
    LET hasOpening == \E k \in DOMAIN openingPatterns :
                          MatchAtIgnoreCase(content, 1, openingPatterns[k])
        greetings == IF region # <<>> THEN culturalGreetings[region]
                     ELSE culturalGreetings[ <<"c","o","a","s","t","a","l">> ]
        randomGreeting == greetings[pick]
    IN  IF ~hasOpening THEN randomGreeting \o <<","," ">> \o toLowerCase(content) ELSE content

ensureTeluguIntegration(content, teluguWords) ==
    IF Len(teluguWords) = 0 THEN content
    ELSE LET hasTeluguWords == \E k \in DOMAIN teluguWords :
                                  includes(toLowerCase(content), toLowerCase(teluguWords[k]))
             word == teluguWords[1]
             capitalized == IF Len(word) = 0 THEN word
                            ELSE <<toUpperChar(word[1])>> \o Tail(word)
         IN  IF hasTeluguWords THEN content
             ELSE IF toLowerCase(word) \in { <<"a","r","e","y">>, <<"b","a","b","o","i">> }
                  THEN capitalized \o <<","," ">> \o toLowerCase(content)
             ELSE IF toLowerCase(word) \in { <<"b","a","b","u">>, <<"a","m","m","a">> }
                  THEN content \o <<" ","T","h","a","t","'","s"," ","w","h","a","t"," ","w","e"," ","c","a","l","l",
                                    " ","i","t",","," ">> \o word \o <<"!">>
             ELSE content \o <<" ","W","e"," ","c","a","l","l"," ","i","t"," ">> \o word \o <<" ","i","n"," ","T","e","l","u","g","u",".">>

\* the alternatives of the five regular expressions of removeTechnicalTerms
technicalTermPatterns == <<
    << <<"A","P","I">>, <<"d","a","t","a","b","a","s","e">>, <<"d","a","t","a","s","e","t">>, <<"t","r","a","i","n","i","n","g"," ","d","a","t","a">>, <<"a","l","g","o","r","i","t","h","m">>, <<"m","o","d","e","l">> >>,
    << <<"i","m","p","l","e","m","e","n","t","a","t","i","o","n">>, <<"s","y","s","t","e","m">>, <<"i","n","t","e","r","f","a","c","e">>, <<"c","o","m","p","o","n","e","n","t">>, <<"m","o","d","u","l","e">> >>,
    << <<"c","o","n","f","i","g","u","r","a","t","i","o","n">>, <<"p","a","r","a","m","e","t","e","r">>, <<"f","u","n","c","t","i","o","n">>, <<"m","e","t","h","o","d">>, <<"c","l","a","s","s">> >>,
    << <<"s","e","r","v","e","r">>, <<"c","l","i","e","n","t">>, <<"e","n","d","p","o","i","n","t">>, <<"r","e","q","u","e","s","t">>, <<"r","e","s","p","o","n","s","e">> >>,
    << <<"J","S","O","N">>, <<"X","M","L">>, <<"H","T","T","P">>, <<"R","E","S","T">>, <<"G","r","a","p","h","Q","L">> >> >>

RECURSIVE removeEach(_, _, _)
\* technicalTerms.forEach(regex => cleaned = cleaned.replace(regex, '')), from regex k on
removeEach(s, patterns, k) ==
    IF k > Len(patterns) THEN s
    ELSE removeEach(removeMatches(s, patterns[k], 1), patterns, k + 1)

removeTechnicalTerms(content) ==
    trim(dropSpaceBeforePunct(collapseSpaces(removeEach(content, technicalTermPatterns, 1))))

\* /\b(that's|this is|beauty|authentic|traditional|culture|heritage)\b.*[!.]$/i
closingPatterns == << <<"t","h","a","t","'","s">>, <<"t","h","i","s"," ","i","s">>, <<"b","e","a","u","t","y">>, <<"a","u","t","h","e","n","t","i","c">>, <<"t","r","a","d","i","t","i","o","n","a","l">>,
                      <<"c","u","l","t","u","r","e">>, <<"h","e","r","i","t","a","g","e">> >>

hasCulturalClosing(content) ==
    /\ Len(content) > 0
    /\ content[Len(content)] \in {"!", "."}
    /\ \E i \in 1..Len(content) : \E k \in DOMAIN closingPatterns :
          LET after == i + Len(closingPatterns[k])
          IN  /\ wordBoundary(content, i)
              /\ MatchAtIgnoreCase(content, i, closingPatterns[k])
              /\ wordBoundary(content, after)
              /\ after <= Len(content)
              \* .* crosses no line terminator
              /\ \A j \in after..(Len(content) - 1) : content[j] \notin {"\n", "\r"}

\* addCulturalClosing that appends the closing without checking the punctuation
addCulturalClosing_NoPunctuation(content, category, pick) ==
    IF hasCulturalClosing(content) THEN content
    ELSE content \o <<" ">> \o SubSeq(culturalClosings[category][pick], 1,
                                    Len(culturalClosings[category][pick]) - 1)

addCulturalClosing(content, category, pick) ==
    LET randomClosing == culturalClosings[category][pick]
        punctuated == IF ~endsWith(content, <<".">>) /\ ~endsWith(content, <<"!">>)
                         /\ ~endsWith(content, <<"?">>)
                      THEN content \o <<".">> ELSE content
    IN  IF ~hasCulturalClosing(content) THEN punctuated \o <<" ">> \o randomClosing
        ELSE content

improveFlow(content) ==
    LET spaced == spaceAfterPunct(dropSpaceBeforePunct(collapseSpaces(content)))
        improved == trim(capitalizeAfter(capitalizeAfter(capitalizeAfter(spaced, "."), "!"),
                                         "?"))
    IN  IF Len(improved) > 0 THEN <<toUpperChar(improved[1])>> \o Tail(improved)
        ELSE improved

\* greetingPick and closingPick are the indices the two Math.random() calls draw
formatResponse(resp, greetingPick, closingPick) ==
    LET opened == addCulturalOpening(resp.content, resp.region, greetingPick)
        integrated == ensureTeluguIntegration(opened, resp.teluguWords)
        cleaned == removeTechnicalTerms(integrated)
        closed == addCulturalClosing(cleaned, resp.category, closingPick)
    IN  improveFlow(closed)

validationTeluguWords == << <<"b","a","b","u">>, <<"a","m","m","a">>, <<"a","r","e","y">>, <<"b","a","b","o","i">>, <<"p","a","p","p","u">>, <<"a","v","a","k","a","y","a">>,
                            <<"r","a","s","a","m">>, <<"b","i","r","y","a","n","i">>, <<"p","a","n","d","u","g","a">>, <<"s","a","n","t","o","s","h","a","m">> >>

validationTechnicalTerms == << <<"A","P","I">>, <<"d","a","t","a","b","a","s","e">>, <<"d","a","t","a","s","e","t">>, <<"t","r","a","i","n","i","n","g">>, <<"a","l","g","o","r","i","t","h","m">>,
                               <<"s","y","s","t","e","m">> >>

warmthIndicators == << <<"t","r","u","s","t"," ","m","e">>, <<"y","o","u"," ","k","n","o","w">>, <<"l","e","t"," ","m","e"," ","t","e","l","l">>, <<"p","a","k","k","a">>, <<"b","e","l","i","e","v","e">>,
                       <<"h","o","n","e","s","t","l","y">>, <<"a","r","e","y">>, <<"b","a","b","o","i">> >>

\* list.some(x => content.toLowerCase().includes(x.toLowerCase()))
includesAny(content, list) ==
    LET lowered == SubSeq(toLowerCase(content), 1, Len(content))
    IN  \E k \in DOMAIN list : includes(lowered, toLowerCase(list[k]))

\* validateResponseFormat that reports the first failing check only
validateResponseFormat_FirstOnly(content) ==
    LET trimmed == trim(content)
        issues ==
            IF ~includesAny(content, validationTeluguWords)
            THEN << <<"R","e","s","p","o","n","s","e"," ","s","h","o","u","l","d"," ","i","n","c","l",
                      "u","d","e"," ","T","e","l","u","g","u"," ","v","o","c","a","b","u","l","a","r",
                      "y">> >>
            ELSE IF includesAny(content, validationTechnicalTerms)
            THEN << <<"R","e","s","p","o","n","s","e"," ","c","o","n","t","a","i","n","s"," ","t","e",
                      "c","h","n","i","c","a","l"," ","i","m","p","l","e","m","e","n","t","a","t","i",
                      "o","n"," ","d","e","t","a","i","l","s">> >>
            ELSE IF ~includesAny(content, warmthIndicators)
            THEN << <<"R","e","s","p","o","n","s","e"," ","s","h","o","u","l","d"," ","h","a","v","e",
                      " ","w","a","r","m",","," ","f","r","i","e","n","d","l","y"," ","t","o","n","e">> >>
            ELSE IF ~endsWith(trimmed, <<".">>) /\ ~endsWith(trimmed, <<"!">>)
                    /\ ~endsWith(trimmed, <<"?">>)
            THEN << <<"R","e","s","p","o","n","s","e"," ","s","h","o","u","l","d"," ","e","n","d"," ",
                      "w","i","t","h"," ","p","r","o","p","e","r"," ","p","u","n","c","t","u","a","t",
                      "i","o","n">> >>
            ELSE <<>>
    IN  [isValid |-> Len(issues) = 0, issues |-> issues]

validateResponseFormat(content) ==
    LET trimmed == trim(content)
        issues ==
            (IF ~includesAny(content, validationTeluguWords)
             THEN << <<"R","e","s","p","o","n","s","e"," ","s","h","o","u","l","d"," ","i","n","c","l",
                       "u","d","e"," ","T","e","l","u","g","u"," ","v","o","c","a","b","u","l","a","r",
                       "y">> >> ELSE <<>>)
            \o (IF includesAny(content, validationTechnicalTerms)
                THEN << <<"R","e","s","p","o","n","s","e"," ","c","o","n","t","a","i","n","s"," ","t","e",
                          "c","h","n","i","c","a","l"," ","i","m","p","l","e","m","e","n","t","a","t","i",
                          "o","n"," ","d","e","t","a","i","l","s">> >> ELSE <<>>)
            \o (IF ~includesAny(content, warmthIndicators)
                THEN << <<"R","e","s","p","o","n","s","e"," ","s","h","o","u","l","d"," ","h","a","v","e",
                          " ","w","a","r","m",","," ","f","r","i","e","n","d","l","y"," ","t","o","n","e">> >> ELSE <<>>)
            \o (IF ~endsWith(trimmed, <<".">>) /\ ~endsWith(trimmed, <<"!">>)
                   /\ ~endsWith(trimmed, <<"?">>)
                THEN << <<"R","e","s","p","o","n","s","e"," ","s","h","o","u","l","d"," ","e","n","d"," ",
                          "w","i","t","h"," ","p","r","o","p","e","r"," ","p","u","n","c","t","u","a","t",
                          "i","o","n">> >> ELSE <<>>)
    IN  [isValid |-> Len(issues) = 0, issues |-> issues]

---------------------------------------------------------------------------
\* The formatter as a state machine: a CulturalResponse is formatted, then the
\* formatted string is validated

\* fragments the content strings are built from: a Telugu opener, a closing phrase, a
\* technical term, a letter that turns it into another word, a full stop, a second term
ContentPieces == << <<"a","r","e","y">>, <<" ","T","h","i","s"," ","i","s">>, <<" ","s","y","s","t","e","m">>, <<"s">>, <<".">>, <<" ","t","r","a","i","n","i","n","g">> >>

RECURSIVE ContentsOf(_)
\* the strings made of some of the first n fragments, in their order
ContentsOf(n) ==
    IF n = 0 THEN {<<>>}
    ELSE IF n > Len(ContentPieces) THEN ContentsOf(n - 1)
    ELSE LET shorter == ContentsOf(n - 1)
         IN  shorter \cup {c \o ContentPieces[n] : c \in shorter}

Contents == ContentsOf(MaxPieces)

\* no word, a word that is prepended, a word that is appended, a word validate ignores
TeluguWordLists == { <<>>, << <<"a","r","e","y">> >>, << <<"b","a","b","u">> >>, << <<"r","u","c","h","i">> >> }

Categories == DOMAIN culturalClosings

\* <<>> stands for a response without region, which is greeted as coastal
Regions == {<<>>, <<"g","u","n","t","u","r">>, <<"r","a","y","a","l","a","s","e","e","m","a">> }

Responses ==
    {[content |-> c, teluguWords |-> w, category |-> k, region |-> r] :
        c \in Contents, w \in TeluguWordLists, k \in Categories, r \in Regions}

\* no store is involved: its fields stay as before construction
StoreIdle ==
    /\ productMd = [threw |-> TRUE]
    /\ slangData = <<>>
    /\ foodData = <<>>
    /\ festivalData = <<>>
    /\ emotionFoodData = <<>>
    /\ isLoaded = FALSE
    /\ pc = "new"
    /\ lastCall = [op |-> "none", args |-> <<>>, ret |-> Null]

storeVars == <<productMd, slangData, foodData, festivalData, emotionFoodData, isLoaded, pc,
               lastCall>>

FormatterInit ==
    /\ StoreIdle
    /\ response \in Responses
    /\ formatted = <<>>
    /\ validation = Null
    /\ fpc = "input"

\* formatter.formatResponse(response); the two Math.random() draws are free
FormatResponse ==
    /\ fpc = "input"
    /\ \E greetingPick \in DOMAIN culturalGreetings[ <<"c","o","a","s","t","a","l">> ],
          closingPick \in DOMAIN culturalClosings[response.category] :
          formatted' = formatResponse(response, greetingPick, closingPick)
    /\ fpc' = "formatted"
    /\ UNCHANGED <<storeVars, response, validation>>

\* formatter.validateResponseFormat(formatted)
ValidateResponseFormat ==
    /\ fpc = "formatted"
    /\ validation' = validateResponseFormat(formatted)
    /\ fpc' = "validated"
    /\ UNCHANGED <<storeVars, response, formatted>>

FormatterNext ==
    \/ FormatResponse
    \/ ValidateResponseFormat

FormatterSpec == FormatterInit /\ [][FormatterNext]_vars

---------------------------------------------------------------------------
\* Properties of the knowledge store (specification Spec)

\* the document was read, but its parsed data fails validateDataCompleteness
IncompleteDocument ==
    /\ ~productMd.threw
    /\ ~validateDataCompleteness(productMd.data).isValid

EqIgnoreCase(a, b) == toLowerCase(a) = toLowerCase(b)

\* C1: after the constructor returns, whatever the source document was (unreadable,
\* incomplete or complete), the mood lookup returns a non-null record for each of sad,
\* sick, happy, angry and tired, and the city enumeration contains visakhapatnam,
\* vijayawada, guntur and tirupati.
C1_RequiredDataPresent ==
    pc = "ready" =>
        /\ \A i \in DOMAIN requiredEmotions :
              getEmotionFoodMapping(This, requiredEmotions[i]) # Null
        /\ \A i \in DOMAIN requiredCities : requiredCities[i] \in DOMAIN foodData

\* a document without the Tired line was loaded and the lookup of "tired" has answered
C1_Witness ==
    /\ pc = "ready"
    /\ IncompleteDocument
    /\ \A i \in DOMAIN productMd.data.emotions :
          productMd.data.emotions[i].emotion # <<"t","i","r","e","d">>
    /\ lastCall.op = "getEmotionFoodMapping"
    /\ lastCall.args = << <<"t","i","r","e","d">> >>
    /\ lastCall.ret # Null

\* C2: when the document is readable but incomplete, the parsed data is discarded: after
\* construction the four maps hold exactly the fixed hardcoded records (nothing that came
\* only from the document is retrievable, no dish is listed twice for a city).
C2_ParsedDataDiscarded ==
    (pc = "ready" /\ IncompleteDocument) =>
        /\ slangData = loadHardcodedData(emptyMaps).slangData
        /\ foodData = loadHardcodedData(emptyMaps).foodData
        /\ festivalData = loadHardcodedData(emptyMaps).festivalData
        /\ emotionFoodData = loadHardcodedData(emptyMaps).emotionFoodData

\* C3: the constructor never propagates an exception: for an unreadable source, an
\* incomplete document or a complete document it ends in the Loaded state, and no later
\* operation leaves the Loaded state.
C3_ConstructorAlwaysLoads ==
    /\ [](pc # "failed" /\ (pc = "ready" => isLoaded))
    /\ [][isLoaded => isLoaded']_vars

\* the store was built from an unreadable source and isDataLoaded() answered true
C3_Witness ==
    /\ pc = "ready"
    /\ productMd.threw
    /\ lastCall.op = "isDataLoaded"
    /\ lastCall.ret.bool

\* C4: after construction the store is read-only: no plain lookup, lookup with fallback
\* or enumeration call, hit or miss, changes any of the four maps.
C4_ReadOnlyAfterConstruction ==
    [][pc = "ready" =>
          <<slangData, foodData, festivalData, emotionFoodData>>'
              = <<slangData, foodData, festivalData, emotionFoodData>>]_vars

\* a lookup with fallback missed and answered with an approximation
C4_Witness ==
    /\ pc = "ready"
    /\ lastCall.op = "getSlangInfoWithFallback"
    /\ "isApproximation" \in DOMAIN lastCall.ret

\* C5: a plain lookup of a key absent from the store returns the miss value (null for a
\* term, a festival or a mood, an empty list for an unknown city), and a key is found
\* only by case-insensitive equality with a stored key: what a lookup returns carries
\* the queried name up to case, and it returns the miss value only when no stored record
\* does.
C5_PlainLookupExactKey ==
    LET q == lastCall.args[1]
        ret == lastCall.ret
    IN  /\ lastCall.op = "getSlangInfo" =>
              IF \E k \in DOMAIN slangData : EqIgnoreCase(slangData[k].term, q)
              THEN ret # Null /\ EqIgnoreCase(ret.term, q)
              ELSE ret = Null
        /\ lastCall.op = "getFestivalInfo" =>
              IF \E k \in DOMAIN festivalData : EqIgnoreCase(festivalData[k].name, q)
              THEN ret # Null /\ EqIgnoreCase(ret.name, q)
              ELSE ret = Null
        /\ lastCall.op = "getEmotionFoodMapping" =>
              IF \E k \in DOMAIN emotionFoodData : EqIgnoreCase(emotionFoodData[k].emotion, q)
              THEN ret # Null /\ EqIgnoreCase(ret.emotion, q)
              ELSE ret = Null
        /\ lastCall.op = "getFoodInfo" =>
              /\ \A i \in DOMAIN ret.array : EqIgnoreCase(ret.array[i].city, q)
              /\ (\A k \in DOMAIN foodData : \A i \in DOMAIN foodData[k] :
                      ~EqIgnoreCase(foodData[k][i].city, q)) => ret.array = <<>>

\* "arey" is part of the stored key "arey baboi", and the plain lookup misses it
C5_Witness ==
    /\ lastCall.op = "getSlangInfo"
    /\ lastCall.args = << <<"a","r","e","y">> >>
    /\ <<"a","r","e","y"," ","b","a","b","o","i">> \in DOMAIN slangData
    /\ lastCall.ret = Null

\* C6: for every key absent from the store and each of the four kinds, the lookup with
\* fallback returns an approximation whose content is non-empty and contains the
\* original query string literally, and whose originalQuery equals the query.
C6_FallbackNamesQuery ==
    LET q == lastCall.args[1]
        ret == lastCall.ret
        absent ==
            \/ lastCall.op = "getSlangInfoWithFallback" /\ toLowerCase(q) \notin DOMAIN slangData
            \/ lastCall.op = "getFoodInfoWithFallback" /\ toLowerCase(q) \notin DOMAIN foodData
            \/ lastCall.op = "getFestivalInfoWithFallback"
               /\ toLowerCase(q) \notin DOMAIN festivalData
            \/ lastCall.op = "getEmotionFoodMappingWithFallback"
               /\ toLowerCase(q) \notin DOMAIN emotionFoodData
    IN  absent =>
            /\ "isApproximation" \in DOMAIN ret
            /\ ret.isApproximation
            /\ Len(ret.content) > 0
            /\ includes(ret.content, q)
            /\ ret.originalQuery = q

\* an unknown city with no close known city was asked for, with fallback
C6_Witness ==
    /\ lastCall.op = "getFoodInfoWithFallback"
    /\ lastCall.args[1] = <<"H","y","d","e","r","a","b","a","d">>
    /\ "isApproximation" \in DOMAIN lastCall.ret
    /\ lastCall.ret.originalQuery = <<"H","y","d","e","r","a","b","a","d">>

---------------------------------------------------------------------------
\* Properties of the formatter (specification FormatterSpec)

\* formatResponse has returned
Formatted == fpc \in {"formatted", "validated"}

\* C7: for any content string (the empty string included), any category, any region and
\* any supplied vocabulary words, the output of formatResponse ends in '.', '!' or '?'.
C7_EndsWithPunctuation ==
    Formatted =>
        /\ Len(formatted) > 0
        /\ formatted[Len(formatted)] \in {".", "!", "?"}

\* the empty content was formatted without vocabulary words
C7_Witness ==
    /\ fpc = "formatted"
    /\ response.content = <<>>
    /\ response.teluguWords = <<>>
    /\ formatted[Len(formatted)] = "!"

\* C8: for any content string, any category and any supplied vocabulary words (an empty
\* list and words outside the validator's list included), the output of formatResponse
\* contains at least one word of the vocabulary list validateResponseFormat checks.
C8_ContainsVocabularyWord ==
    Formatted => includesAny(formatted, validationTeluguWords)

\* C9: for any content string and any category, the output of formatResponse contains
\* none of the technical terms validateResponseFormat looks for, matched as it matches
\* them: without case, as a substring of the output.
C9_NoTechnicalTerm ==
    Formatted => ~includesAny(formatted, validationTechnicalTerms)

\* C10: every string formatResponse produces, for any content, category, region and
\* supplied vocabulary words, passes validateResponseFormat with an empty issue list.
C10_FormatPassesValidate ==
    fpc = "validated" => (validation.isValid /\ validation.issues = <<>>)

---------------------------------------------------------------------------
\* Formatting a formatted string again (specification ReformatSpec)

\* formatter.formatResponse({...response, content: formatted}): the output of the first
\* call is formatted once more with the same words, category and region; the two
\* Math.random() draws of the second call are free as well
FormatAgain ==
    /\ fpc = "formatted"
    /\ \E greetingPick \in DOMAIN culturalGreetings[ <<"c","o","a","s","t","a","l">> ],
          closingPick \in DOMAIN culturalClosings[response.category] :
          formatted' = formatResponse([response EXCEPT !.content = formatted],
                                      greetingPick, closingPick)
    /\ fpc' = "formatted again"
    /\ UNCHANGED <<storeVars, response, validation>>

\* the contents formatted twice: one that gets an opener and one that has its own
ReformatContents == { <<>>, <<"a","r","e","y">> }

ReformatInit ==
    /\ StoreIdle
    /\ response \in {r \in Responses : r.content \in ReformatContents}
    /\ formatted = <<>>
    /\ validation = Null
    /\ fpc = "input"

ReformatNext ==
    \/ FormatResponse
    \/ FormatAgain

ReformatSpec == ReformatInit /\ [][ReformatNext]_vars

\* C11: formatResponse is idempotent: applied to its own output with the same vocabulary
\* words, category and region it returns that output unchanged, whatever opener,
\* vocabulary insertion and closing the first application chose; in particular no second
\* opener is prepended.
C11_FormatIdempotent ==
    [][(fpc = "formatted" /\ fpc' = "formatted again") => formatted' = formatted]_vars

---------------------------------------------------------------------------
\* JavaScript values, for the functions whose parameter is typed any.  A value carries
\* its type; an object carries its own properties as a record.

JsNull == [type |-> "null"]

JsUndefined == [type |-> "undefined"]

JsString(s) == [type |-> "string", value |-> s]

JsNumber(n) == [type |-> "number", value |-> n]

JsArray(items) == [type |-> "array", items |-> items]

JsObject(fields) == [type |-> "object", fields |-> fields]

\* !!v
truthy(v) ==
    CASE v.type \in {"null", "undefined"} -> FALSE
      [] v.type = "string" -> Len(v.value) > 0
      [] v.type = "number" -> v.value # 0
      [] OTHER -> TRUE

\* evaluating v[field] throws a TypeError
getThrows(v) == v.type \in {"null", "undefined"}

\* v[field], for a v on which it does not throw
get(v, field) ==
    IF v.type = "object" /\ field \in DOMAIN v.fields THEN v.fields[field]
    ELSE JsUndefined

\* what a function call does: it returns a value or it throws
Returns(b) == [threw |-> FALSE, ret |-> b]

Throws == [threw |-> TRUE]

---------------------------------------------------------------------------
\* DataValidator: the record validators

\* the test of the loop over requiredFields, negated:
\* !(!x[field] || typeof x[field] !== 'string' || x[field].trim() === '')
fieldPresent(x, field) ==
    LET v == get(x, field)
    IN  truthy(v) /\ v.type = "string" /\ trim(v.value) # <<>>

\* the first entry of the list at which the loop over regionalVariations stops: an entry
\* on which variation.region throws, or one without region or variation; 0 if none
firstDecisive(items) ==
    LET stops == {i \in DOMAIN items :
                     \/ getThrows(items[i])
                     \/ ~truthy(get(items[i], "region"))
                     \/ ~truthy(get(items[i], "variation"))}
    IN  IF stops = {} THEN 0 ELSE CHOOSE i \in stops : \A j \in stops : i <= j

\* if (x.regionalVariations) { if (!Array.isArray(...)) return false;
\*   for (const variation of ...) if (!variation.region || !variation.variation) return false }
\* followed by return true
checkRegionalVariations(x) ==
    LET variations == get(x, "regionalVariations")
    IN  IF ~truthy(variations) THEN Returns(TRUE)
        ELSE IF variations.type # "array" THEN Returns(FALSE)
        ELSE LET i == firstDecisive(variations.items)
             IN  IF i = 0 THEN Returns(TRUE)
                 ELSE IF getThrows(variations.items[i]) THEN Throws
                 ELSE Returns(FALSE)

validateSlangInfo(slang) ==
    IF ~truthy(slang) \/ slang.type \notin {"object", "array"} THEN Returns(FALSE)
    ELSE IF \E field \in {"term", "literalMeaning", "emotionalIntent",
                          "socialAppropriateness", "formalityLevel"} :
                ~fieldPresent(slang, field) THEN Returns(FALSE)
    ELSE IF get(slang, "formalityLevel").value \notin { <<"f","o","r","m","a","l">>, <<"i","n","f","o","r","m","a","l">> }
         THEN Returns(FALSE)
    ELSE checkRegionalVariations(slang)

validateFoodInfo(food) ==
    IF ~truthy(food) \/ food.type \notin {"object", "array"} THEN Returns(FALSE)
    ELSE IF \E field \in {"name", "city", "spiceLevel", "bestTime", "description"} :
                ~fieldPresent(food, field) THEN Returns(FALSE)
    ELSE IF get(food, "spiceLevel").value
                \notin { <<"l","o","w">>, <<"m","e","d","i","u","m">>, <<"h","i","g","h">>, <<"e","x","t","r","e","m","e">> } THEN Returns(FALSE)
    ELSE IF ~\E time \in { <<"M","o","r","n","i","n","g">>, <<"L","u","n","c","h">>, <<"E","v","e","n","i","n","g">>, <<"A","n","y">> } :
                 includes(get(food, "bestTime").value, time) THEN Returns(FALSE)
    ELSE Returns(TRUE)

validateFestivalInfo(festival) ==
    IF ~truthy(festival) \/ festival.type \notin {"object", "array"} THEN Returns(FALSE)
    ELSE IF \E field \in {"name", "culturalMeaning", "foodSymbolism", "emotionalTone"} :
                ~fieldPresent(festival, field) THEN Returns(FALSE)
    ELSE LET foods == get(festival, "associatedFoods")
         IN  IF ~truthy(foods) \/ foods.type # "array" \/ Len(foods.items) = 0
             THEN Returns(FALSE)
             ELSE IF \E i \in DOMAIN foods.items :
                         \/ foods.items[i].type # "string"
                         \/ trim(foods.items[i].value) = <<>> THEN Returns(FALSE)
             ELSE checkRegionalVariations(festival)

validateEmotionFoodMapping(mapping) ==
    IF ~truthy(mapping) \/ mapping.type \notin {"object", "array"} THEN Returns(FALSE)
    ELSE IF \E field \in {"emotion", "recommendedFood", "emotionalLogic", "homeVsStreet"} :
                ~fieldPresent(mapping, field) THEN Returns(FALSE)
    ELSE IF get(mapping, "homeVsStreet").value \notin { <<"h","o","m","e">>, <<"s","t","r","e","e","t">>, <<"b","o","t","h">> }
         THEN Returns(FALSE)
    ELSE IF get(mapping, "emotion").value # toLowerCase(get(mapping, "emotion").value)
         THEN Returns(FALSE)
    ELSE Returns(TRUE)

---------------------------------------------------------------------------
\* ProductMdParser.  A character outside ASCII is one element of the string, written by
\* its code point: "U+2192" is the arrow that separates a name from its description.

Min(S) == CHOOSE i \in S : \A j \in S : i <= j

Max(S) == CHOOSE i \in S : \A j \in S : i >= j

\* s.split(c) for a separator c of one character
split(s, c) ==
    LET seps == {i \in DOMAIN s : s[i] = c}
        n == Cardinality(seps)
        sep(k) == IF k = 0 THEN 0
                  ELSE IF k = n + 1 THEN Len(s) + 1
                  ELSE CHOOSE i \in seps : Cardinality({j \in seps : j < i}) = k - 1
    IN  [k \in 1..(n + 1) |-> SubSeq(s, sep(k - 1) + 1, sep(k) - 1)]

\* content.split('\n').map(line => line.trim()).filter(line => line)
sectionLines(content) ==
    LET pieces == split(content, "\n")
        trimmed == [k \in DOMAIN pieces |-> trim(pieces[k])]
    IN  SelectSeq(trimmed, LAMBDA line : line # <<>>)

includesIgnoreCase(s, t) == includes(toLowerCase(s), t)

\* cityLine.match(/^([A-Za-z\s]+)(?:\s*\([^)]+\))?/): the longest prefix of letters and
\* whitespace, trimmed; null (the empty sequence of results) when that prefix is empty
extractCityName(cityLine) ==
    LET others == {i \in DOMAIN cityLine :
                      cityLine[i] \notin UpperSet \cup LowerSet /\ ~IsSpace(cityLine[i])}
        last == IF others = {} THEN Len(cityLine) ELSE Min(others) - 1
    IN  IF last = 0 THEN Null ELSE [match |-> trim(SubSeq(cityLine, 1, last))]

\* parseFoodLine with the keywords of the spice level tried from the mildest and the
\* best time left at its default
parseFoodLine_MildestFirst(line, city) ==
    LET parts == split(line, "U+2192")
        description == trim(parts[2])
        lower == toLowerCase(description)
        spiceLevel == IF includes(lower, <<"l","o","w">> ) \/ includes(lower, <<"m","i","l","d">> ) THEN <<"l","o","w">>
                      ELSE IF includes(lower, <<"h","i","g","h">> ) \/ includes(lower, <<"s","p","i","c","y">> )
                           THEN <<"h","i","g","h">>
                      ELSE IF includes(lower, <<"e","x","t","r","e","m","e">> ) THEN <<"e","x","t","r","e","m","e">>
                      ELSE <<"m","e","d","i","u","m">>
    IN  IF Len(parts) # 2 THEN Null
        ELSE [name |-> trim(parts[1]), city |-> city, spiceLevel |-> spiceLevel,
              bestTime |-> <<"E","v","e","n","i","n","g">>, description |-> description,
              culturalSignificance |-> <<"T","r","a","d","i","t","i","o","n","a","l"," ">> \o city \o <<" ","s","p","e","c","i","a","l","t","y">> ]

parseFoodLine(line, city) ==
    LET parts == split(line, "U+2192")
        name == trim(parts[1])
        description == trim(parts[2])
        lower == toLowerCase(description)
        spiceLevel == IF includes(lower, <<"e","x","t","r","e","m","e">> ) THEN <<"e","x","t","r","e","m","e">>
                      ELSE IF includes(lower, <<"h","i","g","h">> ) \/ includes(lower, <<"s","p","i","c","y">> )
                           THEN <<"h","i","g","h">>
                      ELSE IF includes(lower, <<"l","o","w">> ) \/ includes(lower, <<"m","i","l","d">> )
                           THEN <<"l","o","w">>
                      ELSE <<"m","e","d","i","u","m">>
        bestTime == IF includes(lower, <<"b","r","e","a","k","f","a","s","t">> ) \/ includes(lower, <<"m","o","r","n","i","n","g">> )
                    THEN <<"M","o","r","n","i","n","g">>
                    ELSE IF includes(lower, <<"l","u","n","c","h">> ) THEN <<"L","u","n","c","h">>
                    ELSE <<"E","v","e","n","i","n","g">>
    IN  IF Len(parts) # 2 THEN Null
        ELSE [name |-> name, city |-> city, spiceLevel |-> spiceLevel,
              bestTime |-> bestTime, description |-> description,
              culturalSignificance |-> <<"T","r","a","d","i","t","i","o","n","a","l"," ">> \o city \o <<" ","s","p","e","c","i","a","l","t","y">> ]

\* a parsed record as its validator receives it: its lists are arrays of strings, its
\* other fields strings
asValue(record) ==
    JsObject([f \in DOMAIN record |->
                 IF f \in {"associatedFoods", "regionalVariations"}
                 THEN JsArray([k \in DOMAIN record[f] |-> JsString(record[f][k])])
                 ELSE JsString(record[f])])

IsTrue(result) == ~result.threw /\ result.ret

foodHeader(line) ==
    \/ includes(line, <<"U+1F357">>)
    \/ includes(line, <<"F","o","o","d"," ","P","r","i","n","c","i","p","l","e","s">> )
    \/ includes(line, <<"C","i","t","y","-","w","i","s","e">> )

cityHeader(line) ==
    /\ ~foodHeader(line)
    /\ ~includes(line, <<"U+2192">>)
    /\ \E city \in { <<"V","i","s","a","k","h","a","p","a","t","n","a","m">>, <<"V","i","j","a","y","a","w","a","d","a">>, <<"G","u","n","t","u","r">>, <<"T","i","r","u","p","a","t","i">> } :
           includes(line, city)

\* the value of currentCity when the loop of parseFoodSection reaches line i
currentCityAt(lines, i) ==
    LET headers == {j \in 1..(i - 1) : cityHeader(lines[j])}
    IN  IF headers = {} THEN <<>>
        ELSE LET name == extractCityName(lines[Max(headers)])
             IN  IF name = Null THEN <<>> ELSE name.match

\* what parseFoodSection pushes when it does not ask the validator
parseFoodSection_Unchecked(content) ==
    LET lines == sectionLines(content)
        foodLines == {i \in DOMAIN lines :
                         /\ ~foodHeader(lines[i])
                         /\ ~cityHeader(lines[i])
                         /\ includes(lines[i], <<"U+2192">>)
                         /\ currentCityAt(lines, i) # <<>>
                         /\ parseFoodLine(lines[i], currentCityAt(lines, i)) # Null}
        nth(k) == CHOOSE i \in foodLines : Cardinality({j \in foodLines : j < i}) = k - 1
    IN  [k \in 1..Cardinality(foodLines) |->
            parseFoodLine(lines[nth(k)], currentCityAt(lines, nth(k)))]

parseFoodSection(content) ==
    SelectSeq(parseFoodSection_Unchecked(content),
              LAMBDA foodInfo : IsTrue(validateFoodInfo(asValue(foodInfo))))

\* s.match(/\(([^)]+)\)/) tried at the parenthesis at index p: the text up to the next
\* closing parenthesis, which must not be empty
parenMatchAt(s, p) ==
    /\ s[p] = "("
    /\ \E q \in (p + 2)..Len(s) : s[q] = ")" /\ \A r \in (p + 1)..(q - 1) : s[r] # ")"

parenCapture(s, p) ==
    SubSeq(s, p + 1, Min({q \in (p + 1)..Len(s) : s[q] = ")"}) - 1)

\* nextLine.match(/^\(([^)]+)\)/), then logicMatch[1].trim(); empty when there is no match
leadingLogic(nextLine) ==
    IF Len(nextLine) > 0 /\ parenMatchAt(nextLine, 1) THEN trim(parenCapture(nextLine, 1))
    ELSE <<>>

\* foodLine.match(/\(([^)]+)\)/), then inlineLogicMatch[1].trim()
inlineLogic(foodLine) ==
    LET starts == {p \in DOMAIN foodLine : parenMatchAt(foodLine, p)}
    IN  IF starts = {} THEN <<>> ELSE trim(parenCapture(foodLine, Min(starts)))

emotionHeader(line) ==
    \/ includes(line, <<"U+2764", "U+FE0F">>)
    \/ includes(line, <<"E","m","o","t","i","o","n","a","l">> )
    \/ includes(line, <<"C","o","r","e"," ","B","e","l","i","e","f">> )
    \/ includes(line, <<"M","o","o","d">> )

\* the mapping the loop of parseEmotionSection builds at line i
emotionMappingAt(lines, i) ==
    LET parts == split(lines[i], "U+2192")
        emotion == toLowerCase(trim(parts[1]))
        foodLine == trim(parts[2])
        recommendedFood == trim(split(foodLine, "(")[1])
        fromNext == IF i + 1 <= Len(lines) THEN leadingLogic(lines[i + 1]) ELSE <<>>
        fromLine == IF fromNext # <<>> THEN fromNext ELSE inlineLogic(foodLine)
        emotionalLogic == IF fromLine # <<>> THEN fromLine
                          ELSE recommendedFood \o <<" ","i","s"," ","c","u","l","t","u","r","a","l","l","y"," ","a","p","p","r","o",
                                                    "p","r","i","a","t","e"," ","f","o","r"," ">>
                                   \o emotion \o <<" ","f","e","e","l","i","n","g","s">>
        foodLower == toLowerCase(recommendedFood)
        homeVsStreet == IF includes(foodLower, <<"c","o","f","f","e","e">> ) \/ includes(foodLower, <<"p","u","n","u","g","u","l","u">> )
                        THEN <<"s","t","r","e","e","t">>
                        ELSE IF \/ includes(foodLower, <<"p","a","p","p","u">> )
                                \/ includes(foodLower, <<"r","a","s","a","m">> )
                                \/ includes(foodLower, <<"c","u","r","d"," ","r","i","c","e">> )
                             THEN <<"h","o","m","e">>
                        ELSE <<"b","o","t","h">>
    IN  [emotion |-> emotion, recommendedFood |-> recommendedFood,
         emotionalLogic |-> emotionalLogic, homeVsStreet |-> homeVsStreet]

\* what parseEmotionSection pushes when it does not ask the validator
parseEmotionSection_Unchecked(content) ==
    LET lines == sectionLines(content)
        mappingLines == {i \in DOMAIN lines :
                            /\ ~emotionHeader(lines[i])
                            /\ includes(lines[i], <<"U+2192">>)
                            /\ Len(split(lines[i], "U+2192")) = 2}
        nth(k) == CHOOSE i \in mappingLines :
                      Cardinality({j \in mappingLines : j < i}) = k - 1
    IN  [k \in 1..Cardinality(mappingLines) |-> emotionMappingAt(lines, nth(k))]

parseEmotionSection(content) ==
    SelectSeq(parseEmotionSection_Unchecked(content),
              LAMBDA mapping : IsTrue(validateEmotionFoodMapping(asValue(mapping))))

festivalHeader(line) ==
    includes(line, <<"U+1F389">>) \/ includes(line, <<"F","e","s","t","i","v","a","l","s">> )

\* line.match(/^[A-Z][a-z]+(\s+[A-Z][a-z]+)*$/) && !line.includes(':'), for a trimmed line
festivalNameLine(line) ==
    /\ ~festivalHeader(line)
    /\ ~includes(line, <<":">>)
    /\ \A i \in DOMAIN line :
          \/ /\ line[i] \in UpperSet
             /\ i = 1 \/ IsSpace(line[i - 1])
             /\ i < Len(line) /\ line[i + 1] \in LowerSet
          \/ /\ line[i] \in LowerSet
             /\ i > 1 /\ line[i - 1] \in UpperSet \cup LowerSet
          \/ /\ IsSpace(line[i])
             /\ 1 < i /\ i < Len(line)

startsWith(s, t) == MatchAt(s, 1, t)

\* which branch of the detail chain of parseFestivalSection a line takes
detailKind(line) ==
    LET lower == toLowerCase(line)
    IN  IF \/ includes(lower, <<"f","e","s","t","i","v","a","l">> )
           \/ includes(lower, <<"w","o","r","s","h","i","p">> )
           \/ includes(lower, <<"c","e","l","e","b","r","a","t","i","o","n">> ) THEN "culturalMeaning"
        ELSE IF startsWith(lower, <<"f","o","o","d","s",":">> ) \/ startsWith(lower, <<"f","o","o","d",":">> )
             THEN "associatedFoods"
        ELSE IF includes(lower, <<"e","m","o","t","i","o","n","a","l"," ","t","o","n","e",":">> ) THEN "emotionalTone"
        ELSE IF includes(lower, <<"s","y","m","b","o","l","i","z","e","s">> ) \/ includes(lower, <<"r","e","p","r","e","s","e","n","t","s">> )
             THEN "foodSymbolism"
        ELSE "none"

\* line.replace(/^foods?:\s*/i, '').split(',').map(f => f.trim())
foodsOf(line) ==
    LET colon == Min({i \in DOMAIN line : line[i] = ":"})
        first == nextNonSpace(line, colon)
        foodsText == IF first = 0 THEN <<>> ELSE SubSeq(line, first, Len(line))
        pieces == split(foodsText, ",")
    IN  [k \in DOMAIN pieces |-> trim(pieces[k])]

\* line.replace(/.*emotional tone:\s*/i, '')
toneOf(line) ==
    LET lower == toLowerCase(line)
        marker == <<"e","m","o","t","i","o","n","a","l"," ","t","o","n","e",":">>
        last == Max({i \in DOMAIN line : MatchAt(lower, i, marker)})
        first == nextNonSpace(line, last + Len(marker) - 1)
    IN  IF first = 0 THEN <<>> ELSE SubSeq(line, first, Len(line))

\* a scan that saves a festival for every name, whatever its block holds
festivalAt_WhateverTheBlock(lines, n) ==
    [name |-> lines[n], culturalMeaning |-> <<"A"," ","f","e","s","t","i","v","a","l">>,
     associatedFoods |-> << <<"S","w","e","e","t","s">> >>,
     foodSymbolism |-> <<"T","r","a","d","i","t","i","o","n","a","l"," ","f","o","o","d","s"," ","r","e",
                         "p","r","e","s","e","n","t","i","n","g"," ","t","h","e"," ","s","p","i","r","i",
                         "t"," ","o","f"," ">> \o lines[n],
     emotionalTone |-> <<"C","e","l","e","b","r","a","t","o","r","y">> ]

\* the festival the loop of parseFestivalSection has collected for the name at line n
\* when it reaches the next name or the end: Null unless a meaning and a food list
\* were seen
festivalAt(lines, n) ==
    LET names == {i \in DOMAIN lines : festivalNameLine(lines[i])}
        later == {i \in names : i > n}
        end == IF later = {} THEN Len(lines) ELSE Min(later) - 1
        details(kind) == {j \in (n + 1)..end :
                             ~festivalHeader(lines[j]) /\ detailKind(lines[j]) = kind}
        lastOf(kind) == lines[Max(details(kind))]
        tone == IF details("emotionalTone") = {} THEN <<>> ELSE toneOf(lastOf("emotionalTone"))
    IN  IF details("culturalMeaning") = {} \/ details("associatedFoods") = {} THEN Null
        ELSE [name |-> lines[n],
              culturalMeaning |-> lastOf("culturalMeaning"),
              associatedFoods |-> foodsOf(lastOf("associatedFoods")),
              foodSymbolism |-> IF details("foodSymbolism") = {}
                                THEN <<"T","r","a","d","i","t","i","o","n","a","l"," ","f","o","o","d","s"," ","r","e",
                                       "p","r","e","s","e","n","t","i","n","g"," ","t","h","e"," ","s","p","i","r","i",
                                       "t"," ","o","f"," ">> \o lines[n]
                                ELSE lastOf("foodSymbolism"),
              emotionalTone |-> IF tone = <<>> THEN <<"C","e","l","e","b","r","a","t","o","r","y">> ELSE tone]

\* what parseFestivalSection pushes when it does not ask the validator
parseFestivalSection_Unchecked(content) ==
    LET lines == sectionLines(content)
        complete == {i \in DOMAIN lines :
                        festivalNameLine(lines[i]) /\ festivalAt(lines, i) # Null}
        nth(k) == CHOOSE i \in complete : Cardinality({j \in complete : j < i}) = k - 1
    IN  [k \in 1..Cardinality(complete) |-> festivalAt(lines, nth(k))]

parseFestivalSection(content) ==
    SelectSeq(parseFestivalSection_Unchecked(content),
              LAMBDA festival : IsTrue(validateFestivalInfo(asValue(festival))))

RECURSIVE quotedFrom(_, _, _)
\* content.match(/"([^"]+)"/g) with the quotes removed, scanning from the k-th quotation
\* mark of the content: a mark opens a term when the next mark does not follow at once
quotedFrom(content, quotes, k) ==
    IF k + 1 > Len(quotes) THEN <<>>
    ELSE IF quotes[k + 1] > quotes[k] + 1
         THEN <<SubSeq(content, quotes[k] + 1, quotes[k + 1] - 1)>>
                  \o quotedFrom(content, quotes, k + 2)
         ELSE quotedFrom(content, quotes, k + 1)

\* the indices of the quotation marks of the content, in order
quoteIndices(content) ==
    LET marks == {i \in DOMAIN content : content[i] = "\""}
    IN  [k \in 1..Cardinality(marks) |->
            CHOOSE i \in marks : Cardinality({j \in marks : j < i}) = k - 1]

slangTerms(content) == quotedFrom(content, quoteIndices(content), 1)

\* termMatch[1] of "term"([\s\S]*?)(?="[^"]*"|$) with flag i: the text after the first
\* occurrence of the quoted term, up to the next quotation mark that has a partner
termContentOf(content, term) ==
    LET quoted == toLowerCase(<<"\"">> \o term \o <<"\"">>)
        lower == toLowerCase(content)
        start == Min({i \in DOMAIN content : MatchAt(lower, i, quoted)}) + Len(quoted)
        stops == {p \in start..Len(content) :
                     content[p] = "\"" /\ \E q \in (p + 1)..Len(content) : content[q] = "\""}
    IN  SubSeq(content, start, IF stops = {} THEN Len(content) ELSE Min(stops) - 1)

\* the text from index first up to the end of its line
restOfLine(s, first) ==
    LET breaks == {i \in first..Len(s) : s[i] = "\n"}
    IN  SubSeq(s, first, IF breaks = {} THEN Len(s) ELSE Min(breaks) - 1)

\* m ? m[1].trim() : '' for m = termContent.match(/(?:K1|K2):\s*([^\n]+)/i): the rest of
\* the line at the first character that is not whitespace after the first keyword
labelled(termContent, keywords) ==
    LET lower == toLowerCase(termContent)
        ends == {i + Len(k) : i \in DOMAIN termContent, k \in keywords}
        colons == {e \in ends \cap DOMAIN termContent :
                      \E k \in keywords : MatchAt(lower, e - Len(k), k \o <<":">>)}
        first == IF colons = {} THEN 0 ELSE nextNonSpace(termContent, Min(colons))
    IN  IF first = 0 THEN <<>> ELSE trim(restOfLine(termContent, first))

\* termContent.match(/Avoid\s+([^\n]+)/i): Null, or the trimmed capture
avoidMatch(termContent) ==
    LET lower == toLowerCase(termContent)
        n == Len(termContent)
        found == {i \in DOMAIN termContent :
                     /\ MatchAt(lower, i, <<"a","v","o","i","d">> )
                     /\ i + 5 <= n
                     /\ IsSpace(termContent[i + 5])
                     /\ \/ nextNonSpace(termContent, i + 5) # 0
                        \/ \E j \in (i + 6)..n : termContent[j] # "\n"}
        first == nextNonSpace(termContent, Min(found) + 5)
    IN  IF found = {} THEN Null
        ELSE IF first = 0 THEN [match |-> <<>>]
        ELSE [match |-> trim(restOfLine(termContent, first))]

parseSlangTerm(content, term) ==
    LET termContent == termContentOf(content, term)
        literalMeaning == labelled(termContent, { <<"l","i","t","e","r","a","l">>, <<"m","e","a","n","i","n","g">> })
        emotionalIntent == labelled(termContent, { <<"e","m","o","t","i","o","n","a","l"," ","m","e","a","n","i","n","g">>, <<"e","m","o","t","i","o","n">> })
        usage == labelled(termContent, { <<"u","s","a","g","e">>, <<"u","s","e">> })
        avoid == avoidMatch(termContent)
        withAvoid == IF avoid = Null THEN usage
                     ELSE usage \o (IF usage # <<>> THEN <<";"," ">> ELSE <<>>)
                              \o <<"A","v","o","i","d"," ">> \o avoid.match
        socialAppropriateness == IF withAvoid = <<>> THEN <<"G","e","n","e","r","a","l"," ","u","s","e">> ELSE withAvoid
        formalityLevel == IF includesIgnoreCase(termContent, <<"f","o","r","m","a","l">> ) THEN <<"f","o","r","m","a","l">>
                          ELSE <<"i","n","f","o","r","m","a","l">>
    IN  IF literalMeaning = <<>> \/ emotionalIntent = <<>> THEN Null
        ELSE [term |-> term, literalMeaning |-> literalMeaning,
              emotionalIntent |-> emotionalIntent,
              socialAppropriateness |-> socialAppropriateness,
              formalityLevel |-> formalityLevel, regionalVariations |-> <<>>]

\* what parseSlangSection pushes when it does not ask the validator
parseSlangSection_Unchecked(content) ==
    LET terms == slangTerms(content)
        infos == [k \in DOMAIN terms |-> parseSlangTerm(content, terms[k])]
    IN  SelectSeq(infos, LAMBDA slangInfo : slangInfo # Null)

parseSlangSection(content) ==
    SelectSeq(parseSlangSection_Unchecked(content),
              LAMBDA slangInfo : IsTrue(validateSlangInfo(asValue(slangInfo))))

\* m ? m[1] : '' for m = content.match(/header([\s\S]*?)(?=stop|$)/): the text after the
\* first occurrence of the header, up to the next occurrence of the stop mark
sectionOf(content, header, stop) ==
    LET starts == {i \in DOMAIN content : MatchAt(content, i, header)}
        from == Min(starts) + Len(header)
        stops == {p \in from..Len(content) : MatchAt(content, p, stop)}
    IN  IF starts = {} THEN <<>>
        ELSE SubSeq(content, from, IF stops = {} THEN Len(content) ELSE Min(stops) - 1)

slangHeader == <<"U+1F5E3", "U+FE0F">> \o <<" ","A","n","d","h","r","a"," ","S","l","a","n","g"," ","I","n","t","e","l","l",
                                            "i","g","e","n","c","e">>

foodSectionHeader == <<"U+1F357">> \o <<" ","A","n","d","h","r","a"," ","S","t","r","e","e","t"," ","F","o","o","d"," ",
                                        "C","u","l","t","u","r","e">>

festivalSectionHeader == <<"U+1F389">> \o <<" ","F","e","s","t","i","v","a","l","s"," ","o","f"," ","A","n","d","h","r","a",
                                            " ","P","r","a","d","e","s","h">>

emotionSectionHeader == <<"U+2764", "U+FE0F">> \o <<" ","E","m","o","t","i","o","n","a","l"," ","F","o","o","d"," ","M","a","p","p",
                                                    "i","n","g">>

extractSections(content) ==
    [slang |-> sectionOf(content, slangHeader, <<"U+1F357">>),
     food |-> sectionOf(content, foodSectionHeader, <<"U+1F389">>),
     festivals |-> sectionOf(content, festivalSectionHeader, <<"U+2764", "U+FE0F">>),
     emotions |-> sectionOf(content, emotionSectionHeader, <<"U+1F39B", "U+FE0F">>)]

parseContent(content) ==
    LET sections == extractSections(content)
    IN  [slang |-> parseSlangSection(sections.slang),
         food |-> parseFoodSection(sections.food),
         festivals |-> parseFestivalSection(sections.festivals),
         emotions |-> parseEmotionSection(sections.emotions)]

\* the file at productMdPath: unreadable, or its content
parseProductMd(file) ==
    IF ~file.readable THEN [threw |-> TRUE]
    ELSE [threw |-> FALSE, data |-> parseContent(file.content)]

---------------------------------------------------------------------------
\* The parser as a state machine: a call of parseProductMd on a file is pending, then
\* it has returned.

Pending == [pending |-> TRUE]

\* section texts: none, the one of the parser's tests, and ones with entries the
\* validators refuse (a blank term, a dish without name or description, a festival
\* without foods, a mapping without food or emotion), and a mood section whose lines
\* carry an explanation on the line itself, on the next line, on both or on neither,
\* and a food section with descriptions of several keywords and a city header that
\* says more than the name of the city, and a festival section with festivals that
\* lack a food list or a meaning
SlangSections ==
    { <<>>,
      slangHeader \o <<"\n","\n","\"","A","r","e","y"," ","B","a","b","o","i","\"","\n","L","i","t","e","r",
                       "a","l",":"," ","O","h"," ","m","y"," ","G","o","d","\n","E","m","o","t","i","o",
                       "n","a","l"," ","m","e","a","n","i","n","g",":"," ","S","h","o","c","k"," ","/",
                       " ","f","r","u","s","t","r","a","t","i","o","n"," ","/"," ","d","i","s","b","e",
                       "l","i","e","f","\n","U","s","a","g","e",":"," ","I","n","f","o","r","m","a","l",
                       "\n","A","v","o","i","d"," ","i","n"," ","f","o","r","m","a","l"," ","s","e","t",
                       "t","i","n","g","s","\n"," "," "," "," "," "," ">>,
      slangHeader \o <<"\n","\n","\"","I","n","c","o","m","p","l","e","t","e"," ","E","n","t","r","y","\"",
                       "\n","M","i","s","s","i","n","g"," ","r","e","q","u","i","r","e","d"," ","f","i",
                       "e","l","d","s","\n"," "," "," "," "," "," ">>,
      slangHeader \o <<"\n","\""," ","\"","\n","M","e","a","n","i","n","g",":"," ","B","l","a","n","k","\n",
                       "E","m","o","t","i","o","n",":"," ","N","o","n","e","\n","\"","K","e","k","a","\"",
                       "\n","M","e","a","n","i","n","g",":"," ","A","w","e","s","o","m","e","\n","E","m",
                       "o","t","i","o","n",":"," ","E","x","c","i","t","e","m","e","n","t","\n","\"","M",
                       "a","m","a","\"","\n","L","i","t","e","r","a","l",":"," ","U","n","c","l","e","\n",
                       "E","m","o","t","i","o","n",":"," ","A","f","f","e","c","t","i","o","n","\n","U",
                       "s","a","g","e",":"," ","I","n","f","o","r","m","a","l"," ","a","m","o","n","g",
                       " ","f","r","i","e","n","d","s","\n">> }

FoodSections ==
    { <<>>,
      foodSectionHeader \o <<"\n","\n","V","i","s","a","k","h","a","p","a","t","n","a","m"," ","(","V","i","z",
                             "a","g",")","\n","P","u","n","u","g","u","l","u"," ","U+2192"," ","m","e","d","i","u",
                             "m"," ","s","p","i","c","e","\n","B","o","n","g","u","l","o"," ","C","h","i","c",
                             "k","e","n"," ","U+2192"," ","h","i","g","h"," ","s","p","i","c","e","\n"," "," "," ",
                             " "," "," ">>,
      foodSectionHeader \o <<"\n","G","u","n","t","u","r","\n"," ","U+2192"," ","s","p","i","c","y","\n","M","i","r",
                             "c","h","i"," ","B","a","j","j","i"," ","U+2192"," ","e","x","t","r","e","m","e"," ",
                             "s","p","i","c","e","\n","K","a","r","a","m"," ","D","o","s","a"," ","U+2192","\n">>,
      foodSectionHeader \o <<"\n","T","i","r","u","p","a","t","i"," ","(","T","e","m","p","l","e"," ","T","o",
                             "w","n",")","\n","L","a","d","d","u"," ","U+2192"," ","m","i","l","d"," ","s","w","e",
                             "e","t",","," ","m","o","r","n","i","n","g"," ","o","f","f","e","r","i","n","g",
                             "\n","I","d","l","i"," ","w","i","t","h"," ","K","a","r","a","m"," ","U+2192"," ","s",
                             "p","i","c","y"," ","b","r","e","a","k","f","a","s","t",","," ","l","o","w"," ",
                             "o","i","l","\n","M","e","a","l","s"," ","U+2192"," ","M","i","l","d"," ","l","u","n",
                             "c","h",","," ","e","x","t","r","e","m","e"," ","a","t"," ","n","i","g","h","t",
                             "\n","P","u","l","i","h","o","r","a"," ","U+2192"," ","t","a","n","g","y"," ","r","i",
                             "c","e","\n","G","u","n","t","u","r"," ","d","i","s","t","r","i","c","t","\n","M",
                             "i","r","c","h","i"," ","B","a","j","j","i"," ","U+2192"," ","h","i","g","h"," ","s",
                             "p","i","c","e"," ","f","o","r"," ","l","u","n","c","h"," ","o","r"," ","m","o",
                             "r","n","i","n","g","\n">> }

FestivalSections ==
    { <<>>,
      festivalSectionHeader \o <<"\n","\n","S","a","n","k","r","a","n","t","i","\n","H","a","r","v","e","s","t"," ",
                                 "f","e","s","t","i","v","a","l"," ","c","e","l","e","b","r","a","t","i","n","g",
                                 " ","a","b","u","n","d","a","n","c","e","\n","F","o","o","d","s",":"," ","A","r",
                                 "i","s","e","l","u",","," ","P","o","n","g","a","l","\n","E","m","o","t","i","o",
                                 "n","a","l"," ","t","o","n","e",":"," ","F","a","m","i","l","y"," ","b","o","n",
                                 "d","i","n","g","\n"," "," "," "," "," "," ">>,
      festivalSectionHeader \o <<"\n","U","g","a","d","i","\n","N","e","w"," ","y","e","a","r"," ","c","e","l","e",
                                 "b","r","a","t","i","o","n","\n","F","o","o","d","s",":","\n","D","a","s","a","r",
                                 "a","\n","W","o","r","s","h","i","p"," ","o","f"," ","t","h","e"," ","g","o","d",
                                 "d","e","s","s","\n","F","o","o","d","s",":"," ","P","a","y","a","s","a","m","\n">>,
      festivalSectionHeader \o <<"\n","D","i","w","a","l","i","\n","F","e","s","t","i","v","a","l"," ","o","f"," ",
                                 "l","i","g","h","t","s","\n","S","r","i"," ","R","a","m","a"," ","N","a","v","a",
                                 "m","i","\n","F","o","o","d","s",":"," ","P","a","n","a","k","a","m","\n","V","i",
                                 "n","a","y","a","k","a"," ","C","h","a","v","i","t","h","i","\n","W","o","r","s",
                                 "h","i","p"," ","o","f"," ","G","a","n","e","s","h","a","\n","F","o","o","d",":",
                                 " ","U","n","d","r","a","l","l","u",","," ","M","o","d","a","k","\n","T","h","e",
                                 " ","o","f","f","e","r","i","n","g"," ","r","e","p","r","e","s","e","n","t","s",
                                 " ","d","e","v","o","t","i","o","n","\n">> }

EmotionSections ==
    { <<>>,
      emotionSectionHeader \o <<"\n","\n","S","a","d"," ","U+2192"," ","P","a","p","p","u"," ","+"," ","A","v","a","k",
                                "a","y","a","\n","(","C","o","m","f","o","r","t",","," ","n","o","s","t","a","l",
                                "g","i","a",")","\n","\n","H","a","p","p","y"," ","U+2192"," ","B","i","r","y","a","n",
                                "i","\n","(","C","e","l","e","b","r","a","t","i","o","n",")","\n"," "," "," "," ",
                                " "," ">>,
      emotionSectionHeader \o <<"\n","B","o","r","e","d"," ","U+2192"," ","(","d","u","l","l",")","\n"," ","U+2192"," ","R",
                                "a","s","a","m","\n","T","i","r","e","d"," ","U+2192"," ","C","o","f","f","e","e"," ",
                                "(","E","n","e","r","g","y",")","\n">>,
      emotionSectionHeader \o <<"\n","A","n","g","r","y"," ","U+2192"," ","M","i","r","c","h","i"," ","B","a","j","j",
                                "i"," ","(","R","e","l","e","a","s","e",")","\n","(","L","e","t"," ","i","t"," ",
                                "o","u","t",")","\n","S","i","c","k"," ","U+2192"," ","R","a","s","a","m","\n">> }

Documents ==
    {s \o f \o v \o e : s \in SlangSections, f \in FoodSections,
                        v \in FestivalSections, e \in EmotionSections}

Files == {[readable |-> FALSE]} \cup {[readable |-> TRUE, content |-> d] : d \in Documents}

\* the state in which a call of the operation op on one of the argument lists is pending
PendingCall(op, argumentLists) ==
    /\ productMd = [threw |-> TRUE]
    /\ slangData = <<>>
    /\ foodData = <<>>
    /\ festivalData = <<>>
    /\ emotionFoodData = <<>>
    /\ isLoaded = FALSE
    /\ pc = "new"
    /\ FormatterIdle
    /\ \E args \in argumentLists : lastCall = [op |-> op, args |-> args, ret |-> Pending]

RECURSIVE ListsOf(_, _)
\* the lists of at most n elements of S
ListsOf(S, n) ==
    IF n = 0 THEN {<<>>}
    ELSE LET shorter == ListsOf(S, n - 1)
         IN  shorter \cup {Append(l, x) : l \in {s \in shorter : Len(s) = n - 1}, x \in S}

ParserInit == PendingCall("parseProductMd", {<<file>> : file \in Files})

ParseProductMd ==
    /\ lastCall.op = "parseProductMd"
    /\ lastCall.ret = Pending
    /\ lastCall' = [lastCall EXCEPT !.ret = parseProductMd(lastCall.args[1])]
    /\ UNCHANGED <<productMd, slangData, foodData, festivalData, emotionFoodData,
                   isLoaded, pc, formatterVars>>

ParserNext == ParseProductMd

ParserSpec == ParserInit /\ [][ParserNext]_vars

Parsed ==
    /\ lastCall.op = "parseProductMd"
    /\ lastCall.ret # Pending
    /\ ~lastCall.ret.threw

\* C12: for any document text, every record in each of the four collections the
\* parser returns satisfies the record validator of its kind.
C12_ParserEmitsValidRecords ==
    Parsed =>
        LET data == lastCall.ret.data
        IN  /\ \A i \in DOMAIN data.slang :
                   validateSlangInfo(asValue(data.slang[i])) = Returns(TRUE)
            /\ \A i \in DOMAIN data.food :
                   validateFoodInfo(asValue(data.food[i])) = Returns(TRUE)
            /\ \A i \in DOMAIN data.festivals :
                   validateFestivalInfo(asValue(data.festivals[i])) = Returns(TRUE)
            /\ \A i \in DOMAIN data.emotions :
                   validateEmotionFoodMapping(asValue(data.emotions[i])) = Returns(TRUE)

\* a document parsed into records of all four kinds although each of its sections
\* holds an entry that the validator of its kind refuses
C12_Witness ==
    /\ Parsed
    /\ LET data == lastCall.ret.data
           sections == extractSections(lastCall.args[1].content)
       IN  /\ 0 < Len(data.slang)
           /\ Len(data.slang) < Len(parseSlangSection_Unchecked(sections.slang))
           /\ 0 < Len(data.food)
           /\ Len(data.food) < Len(parseFoodSection_Unchecked(sections.food))
           /\ 0 < Len(data.festivals)
           /\ Len(data.festivals) < Len(parseFestivalSection_Unchecked(sections.festivals))
           /\ 0 < Len(data.emotions)
           /\ Len(data.emotions) < Len(parseEmotionSection_Unchecked(sections.emotions))

---------------------------------------------------------------------------
\* Properties of the lookups of the store

\* C13: for a fixed city, dietary preference and time of day, getFoodInfo is monotone
\* in the spice ceiling: for spice levels a below b in the order low < medium < high <
\* extreme, every dish returned for a is also returned for b, and every dish returned
\* for a has spice rank at most a.
C13_SpiceCeilingMonotone ==
    (lastCall.op = "getFoodInfo" /\ "spiceLevel" \in DOMAIN lastCall.args[2]
                                 /\ lastCall.args[2].spiceLevel \in DOMAIN spiceLevels) =>
        LET city == lastCall.args[1]
            preferences == lastCall.args[2]
            a == preferences.spiceLevel
            dishes == lastCall.ret.array
        IN  /\ \A i \in DOMAIN dishes :
                   /\ dishes[i].spiceLevel \in DOMAIN spiceLevels
                   /\ spiceLevels[dishes[i].spiceLevel] <= spiceLevels[a]
            /\ \A b \in DOMAIN spiceLevels :
                   spiceLevels[a] < spiceLevels[b] =>
                       LET forB == getFoodInfo(This, city, [preferences EXCEPT !.spiceLevel = b])
                       IN  \A i \in DOMAIN dishes : \E j \in DOMAIN forB : forB[j] = dishes[i]

\* a lookup below the highest ceiling that returns dishes, and fewer of them than the
\* same lookup with the ceiling at extreme
C13_Witness ==
    /\ lastCall.op = "getFoodInfo"
    /\ lastCall.args[2].spiceLevel \in { <<"l","o","w">>, <<"m","e","d","i","u","m">>, <<"h","i","g","h">> }
    /\ Len(lastCall.ret.array) > 0
    /\ Len(lastCall.ret.array) <
           Len(getFoodInfo(This, lastCall.args[1],
                           [lastCall.args[2] EXCEPT !.spiceLevel = <<"e","x","t","r","e","m","e">> ]))

---------------------------------------------------------------------------
\* EmotionFoodMapperImpl

\* this.emotionMappings of the mapper
mapperEmotionMappings ==
    LET entry(food, reasoning, spiceLevel, homeVsStreet) ==
            [food |-> food, reasoning |-> reasoning, spiceLevel |-> spiceLevel,
             homeVsStreet |-> homeVsStreet]
        keys == { <<"s","a","d">>, <<"s","i","c","k">>, <<"h","a","p","p","y">>, <<"a","n","g","r","y">>, <<"t","i","r","e","d">> }
    IN  [k \in keys |->
            CASE k = <<"s","a","d">> ->
                   entry( <<"P","a","p","p","u"," ","w","i","t","h"," ","A","v","a","k","a","y","a">>,
                          <<"C","o","m","f","o","r","t"," ","f","o","o","d"," ","t","h","a","t"," ","b","r",
                            "i","n","g","s"," ","n","o","s","t","a","l","g","i","a"," ","a","n","d"," ","w",
                            "a","r","m","t","h",","," ","l","i","k","e"," ","a","m","m","a","'","s"," ","c",
                            "o","o","k","i","n","g">>,
                          <<"m","e","d","i","u","m">>, <<"h","o","m","e">> )
              [] k = <<"s","i","c","k">> ->
                   entry( <<"R","a","s","a","m">>,
                          <<"L","i","g","h","t",","," ","h","e","a","l","i","n","g"," ","s","o","u","p"," ",
                            "w","i","t","h"," ","p","e","p","p","e","r"," ","t","h","a","t"," ","s","o","o",
                            "t","h","e","s"," ","t","h","e"," ","b","o","d","y"," ","a","n","d"," ","a","i",
                            "d","s"," ","d","i","g","e","s","t","i","o","n">>,
                          <<"l","o","w">>, <<"h","o","m","e">> )
              [] k = <<"h","a","p","p","y">> ->
                   entry( <<"B","i","r","y","a","n","i">>,
                          <<"C","e","l","e","b","r","a","t","o","r","y"," ","f","e","a","s","t"," ","f","o",
                            "o","d"," ","t","h","a","t"," ","m","a","t","c","h","e","s"," ","t","h","e"," ",
                            "j","o","y"," ","a","n","d"," ","f","e","s","t","i","v","e"," ","m","o","o","d">>,
                          <<"h","i","g","h">>, <<"s","t","r","e","e","t">> )
              [] k = <<"a","n","g","r","y">> ->
                   entry( <<"C","u","r","d"," ","R","i","c","e">>,
                          <<"C","o","o","l","i","n","g"," ","e","f","f","e","c","t"," ","t","h","a","t"," ",
                            "c","a","l","m","s"," ","t","h","e"," ","m","i","n","d"," ","a","n","d"," ","r",
                            "e","d","u","c","e","s"," ","b","o","d","y"," ","h","e","a","t"," ","f","r","o",
                            "m"," ","a","n","g","e","r">>,
                          <<"l","o","w">>, <<"h","o","m","e">> )
              [] k = <<"t","i","r","e","d">> ->
                   entry( <<"C","o","f","f","e","e"," ","w","i","t","h"," ","P","u","n","u","g","u","l","u">>,
                          <<"E","n","e","r","g","y"," ","b","o","o","s","t"," ","f","r","o","m"," ","c","a",
                            "f","f","e","i","n","e"," ","p","a","i","r","e","d"," ","w","i","t","h"," ","c",
                            "r","i","s","p","y"," ","s","n","a","c","k","s"," ","f","o","r"," ","q","u","i",
                            "c","k"," ","s","a","t","i","s","f","a","c","t","i","o","n">>,
                          <<"m","e","d","i","u","m">>, <<"s","t","r","e","e","t">> )]

\* mapEmotionToFood without the normalisation of its argument
mapEmotionToFood_Verbatim(emotion) ==
    IF emotion \notin DOMAIN mapperEmotionMappings
    THEN [food |-> <<"P","a","p","p","u"," ","w","i","t","h"," ","A","v","a","k","a","y","a">>,
          reasoning |-> <<"W","h","e","n"," ","i","n"," ","d","o","u","b","t",","," ","c","o","m","f","o",
                          "r","t"," ","f","o","o","d"," ","l","i","k","e"," ","p","a","p","p","u"," ","a",
                          "l","w","a","y","s"," ","h","e","l","p","s",","," ","r","a","!">>,
          culturalContext |-> <<"I","n"," ","A","n","d","h","r","a"," ","c","u","l","t","u","r","e",","," ","p",
                                "a","p","p","u"," ","i","s"," ","t","h","e"," ","u","l","t","i","m","a","t","e",
                                " ","c","o","m","f","o","r","t"," ","f","o","o","d"," ","t","h","a","t"," ","s",
                                "o","o","t","h","e","s"," ","a","n","y"," ","e","m","o","t","i","o","n">>,
          spiceLevel |-> <<"m","e","d","i","u","m">> ]
    ELSE LET mapping == mapperEmotionMappings[emotion]
         IN  [food |-> mapping.food, reasoning |-> mapping.reasoning,
              culturalContext |-> <<"I","n"," ","A","n","d","h","r","a"," ","c","u","l","t","u","r","e",","," ","f",
                                    "o","o","d"," ","i","s"," ","e","m","o","t","i","o","n","a","l"," ","m","e","d",
                                    "i","c","i","n","e"," ","-"," ">>
                                      \o mapping.food
                                      \o <<" ","i","s"," ","p","e","r","f","e","c","t"," ","f","o","r"," ","w","h","e","n",
                                           " ","y","o","u","'","r","e"," ","f","e","e","l","i","n","g"," ">> \o emotion,
              spiceLevel |-> mapping.spiceLevel]

mapEmotionToFood(emotion) ==
    LET normalizedEmotion == trim(toLowerCase(emotion))
    IN  IF normalizedEmotion \notin DOMAIN mapperEmotionMappings
        THEN [food |-> <<"P","a","p","p","u"," ","w","i","t","h"," ","A","v","a","k","a","y","a">>,
              reasoning |-> <<"W","h","e","n"," ","i","n"," ","d","o","u","b","t",","," ","c","o","m","f","o",
                              "r","t"," ","f","o","o","d"," ","l","i","k","e"," ","p","a","p","p","u"," ","a",
                              "l","w","a","y","s"," ","h","e","l","p","s",","," ","r","a","!">>,
              culturalContext |-> <<"I","n"," ","A","n","d","h","r","a"," ","c","u","l","t","u","r","e",","," ","p",
                                    "a","p","p","u"," ","i","s"," ","t","h","e"," ","u","l","t","i","m","a","t","e",
                                    " ","c","o","m","f","o","r","t"," ","f","o","o","d"," ","t","h","a","t"," ","s",
                                    "o","o","t","h","e","s"," ","a","n","y"," ","e","m","o","t","i","o","n">>,
              spiceLevel |-> <<"m","e","d","i","u","m">> ]
        ELSE LET mapping == mapperEmotionMappings[normalizedEmotion]
             IN  [food |-> mapping.food, reasoning |-> mapping.reasoning,
                  culturalContext |-> <<"I","n"," ","A","n","d","h","r","a"," ","c","u","l","t","u","r","e",","," ","f",
                                        "o","o","d"," ","i","s"," ","e","m","o","t","i","o","n","a","l"," ","m","e","d",
                                        "i","c","i","n","e"," ","-"," ">>
                                          \o mapping.food
                                          \o <<" ","i","s"," ","p","e","r","f","e","c","t"," ","f","o","r"," ","w","h","e","n",
                                               " ","y","o","u","'","r","e"," ","f","e","e","l","i","n","g"," ">> \o emotion,
                  spiceLevel |-> mapping.spiceLevel]

\* mood strings: the table moods and others, in several cases, padded with whitespace
Moods ==
    {before \o word \o after :
        before \in {<<>>, <<" ">>, <<"\n","\t">> },
        after \in {<<>>, <<" "," ">> },
        word \in { <<"s","a","d">>, <<"S","a","d">>, <<"S","I","C","K">>, <<"h","a","p","p","y">>, <<"A","n","g","r","y">>, <<"t","I","R","E","D">>,
                   <<"e","x","c","i","t","e","d">>, <<"s","a"," ","d">>, <<"s","a","d","n","e","s","s">>, <<>> }}

MapperInit == PendingCall("mapEmotionToFood", {<<emotion>> : emotion \in Moods})

MapEmotionToFood ==
    /\ lastCall.op = "mapEmotionToFood"
    /\ lastCall.ret = Pending
    /\ lastCall' = [lastCall EXCEPT !.ret = mapEmotionToFood(lastCall.args[1])]
    /\ UNCHANGED <<productMd, slangData, foodData, festivalData, emotionFoodData,
                   isLoaded, pc, formatterVars>>

MapperNext == MapEmotionToFood

MapperSpec == MapperInit /\ [][MapperNext]_vars

\* C14: mapEmotionToFood is total: for any mood string it returns the table entry of
\* the trimmed, lower-cased mood when that is one of sad, sick, happy, angry, tired
\* (sad gives food 'Pappu with Avakaya' and spice level medium), and otherwise the
\* fixed default entry with food 'Pappu with Avakaya' and spice level medium.
C14_MapIsTotal ==
    (lastCall.op = "mapEmotionToFood" /\ lastCall.ret # Pending) =>
        LET mood == trim(toLowerCase(lastCall.args[1]))
            ret == lastCall.ret
        IN  /\ DOMAIN ret = {"food", "reasoning", "culturalContext", "spiceLevel"}
            /\ mood \in DOMAIN mapperEmotionMappings =>
                   /\ ret.food = mapperEmotionMappings[mood].food
                   /\ ret.reasoning = mapperEmotionMappings[mood].reasoning
                   /\ ret.spiceLevel = mapperEmotionMappings[mood].spiceLevel
            /\ mood = <<"s","a","d">> =>
                   /\ ret.food = <<"P","a","p","p","u"," ","w","i","t","h"," ","A","v","a","k","a","y","a">>
                   /\ ret.spiceLevel = <<"m","e","d","i","u","m">>
                   /\ includesIgnoreCase(ret.reasoning, <<"c","o","m","f","o","r","t">> )
            /\ mood \notin DOMAIN mapperEmotionMappings =>
                   /\ ret.food = <<"P","a","p","p","u"," ","w","i","t","h"," ","A","v","a","k","a","y","a">>
                   /\ ret.spiceLevel = <<"m","e","d","i","u","m">>
                   /\ ret.reasoning = <<"W","h","e","n"," ","i","n"," ","d","o","u","b","t",","," ","c","o","m","f","o",
                                        "r","t"," ","f","o","o","d"," ","l","i","k","e"," ","p","a","p","p","u"," ","a",
                                        "l","w","a","y","s"," ","h","e","l","p","s",","," ","r","a","!">>

\* the mapper has answered a padded, upper-case table mood with that mood's entry
C14_Witness ==
    /\ lastCall.op = "mapEmotionToFood"
    /\ lastCall.ret # Pending
    /\ lastCall.args[1] = <<"\n","\t","S","I","C","K"," "," ">>
    /\ lastCall.ret.food = <<"R","a","s","a","m">>

---------------------------------------------------------------------------
\* ErrorHandler.findClosestMatch as a state machine

CandidateNames == { <<"a","b","c">>, <<"A","B","D">>, <<"a","b">>, <<"b">>, <<"a","x","x","x","x","x">>, <<"x","y">> }

\* the lists of at most n candidate names
CandidateLists(n) == ListsOf(CandidateNames, n)

Targets == { <<"a","b">>, <<"A","B">>, <<"a">>, <<"a","z">>, <<"x","y","z">>, <<>> }

ClosestInit ==
    PendingCall("findClosestMatch",
                {<<target, candidates>> : target \in Targets,
                                          candidates \in CandidateLists(MaxCandidates)})

FindClosestMatch ==
    /\ lastCall.op = "findClosestMatch"
    /\ lastCall.ret = Pending
    /\ lastCall' = [lastCall EXCEPT
                    !.ret = [match |-> findClosestMatch(lastCall.args[1], lastCall.args[2])]]
    /\ UNCHANGED <<productMd, slangData, foodData, festivalData, emotionFoodData,
                   isLoaded, pc, formatterVars>>

ClosestNext == FindClosestMatch

ClosestSpec == ClosestInit /\ [][ClosestNext]_vars

Matched == lastCall.op = "findClosestMatch" /\ lastCall.ret # Pending

\* C15: findClosestMatch equals the reference for every query and candidate list: a
\* candidate equal to the query ignoring case is returned if there is one; otherwise,
\* with score = 0.8 if either lower-cased string contains the other, plus 0.2 if the
\* first characters match, plus 0.1 if the lengths differ by at most 2 (counted in
\* tenths), the first candidate in list order attaining the maximum score is returned
\* when that maximum is at least 0.3, and null is returned otherwise.
C15_ClosestMatchReference ==
    Matched =>
        LET target == lastCall.args[1]
            candidates == lastCall.args[2]
            t == toLowerCase(target)
            lower(i) == toLowerCase(candidates[i])
            score(i) ==
                (IF includes(lower(i), t) \/ includes(t, lower(i)) THEN 8 ELSE 0)
                + (IF Len(t) > 0 /\ Len(lower(i)) > 0 /\ t[1] = lower(i)[1] THEN 2 ELSE 0)
                + (IF Len(t) - Len(lower(i)) \in -2..2 THEN 1 ELSE 0)
            exact == {i \in DOMAIN candidates : lower(i) = t}
            top == {i \in DOMAIN candidates : \A j \in DOMAIN candidates : score(j) <= score(i)}
        IN  IF exact # {}
            THEN \E i \in exact : lastCall.ret.match = <<candidates[i]>>
            ELSE IF top # {} /\ \E i \in top : score(i) >= 3
                 THEN lastCall.ret.match = <<candidates[Min(top)]>>
                 ELSE lastCall.ret.match = <<>>

\* a later candidate with a strictly higher score has replaced an earlier one that
\* passed the threshold, after a candidate below the threshold was passed over
C15_Witness ==
    /\ Matched
    /\ lastCall.args = << <<"a","b">>, << <<"b">>, <<"x","y">>, <<"a","b","c">> >> >>
    /\ lastCall.ret.match = << <<"a","b","c">> >>

\* the candidates that tie for the highest score of the list, when that score passes the
\* threshold, no candidate equals the target ignoring case and there are two at least;
\* empty otherwise
TiedForBest(target, candidates) ==
    LET t == toLowerCase(target)
        lower(i) == toLowerCase(candidates[i])
        score(i) ==
            (IF includes(lower(i), t) \/ includes(t, lower(i)) THEN 8 ELSE 0)
            + (IF Len(t) > 0 /\ Len(lower(i)) > 0 /\ t[1] = lower(i)[1] THEN 2 ELSE 0)
            + (IF Len(t) - Len(lower(i)) \in -2..2 THEN 1 ELSE 0)
        top == {i \in DOMAIN candidates : \A j \in DOMAIN candidates : score(j) <= score(i)}
    IN  IF /\ \A i \in DOMAIN candidates : lower(i) # t
           /\ Cardinality(top) >= 2
           /\ \E i \in top : score(i) >= 3
        THEN top ELSE {}

\* C20 as stated: when no candidate equals the query ignoring case and two or more
\* candidates tie for the highest score (at least 0.3), findClosestMatch returns the
\* tied candidate that is scanned last in list order.
C20_TieGoesToLast ==
    (Matched /\ TiedForBest(lastCall.args[1], lastCall.args[2]) # {}) =>
        lastCall.ret.match =
            <<lastCall.args[2][Max(TiedForBest(lastCall.args[1], lastCall.args[2]))]>>

\* C20 amended: when no candidate equals the query ignoring case and two or more
\* candidates tie for the highest score (at least 0.3), findClosestMatch returns the
\* tied candidate that is scanned first in list order.
C20_TieGoesToFirst ==
    (Matched /\ TiedForBest(lastCall.args[1], lastCall.args[2]) # {}) =>
        lastCall.ret.match =
            <<lastCall.args[2][Min(TiedForBest(lastCall.args[1], lastCall.args[2]))]>>

\* two different candidates tie for the highest score and the first one is returned
C20_Witness ==
    /\ Matched
    /\ lastCall.args = << <<"a">>, << <<"x","y">>, <<"a","b","c">>, <<"a","b">> >> >>
    /\ TiedForBest(lastCall.args[1], lastCall.args[2]) = {2, 3}
    /\ lastCall.ret.match = << <<"a","b","c">> >>

---------------------------------------------------------------------------
\* The record validators as a state machine: a validator is called on a value of any
\* type, then it has returned a boolean or thrown.

\* entries of a regionalVariations list: null, undefined, a number, a variation, and a
\* variation without its variation field
VariationEntries ==
    { JsNull, JsUndefined, JsNumber(7),
      JsObject([region |-> JsString( <<"g","u","n","t","u","r">> ), variation |-> JsString( <<"K","e","k","a"," ","r","a">> )]),
      JsObject([region |-> JsString( <<"g","u","n","t","u","r">> )]) }

\* entries of an associatedFoods list
FoodEntries == { JsNull, JsUndefined, JsNumber(7), JsString( <<"P","o","n","g","a","l">> ), JsString( <<" ">> ) }

ValidatorCandidates ==
    LET str(s) == JsString(s)
        slang(variations) ==
            JsObject([term |-> str( <<"T","e","s","t"," ","T","e","r","m">> ), literalMeaning |-> str( <<"T","e","s","t"," ","M","e","a","n","i","n","g">> ),
                      emotionalIntent |-> str( <<"T","e","s","t"," ","I","n","t","e","n","t">> ),
                      socialAppropriateness |-> str( <<"T","e","s","t"," ","U","s","a","g","e">> ),
                      formalityLevel |-> str( <<"i","n","f","o","r","m","a","l">> ),
                      regionalVariations |-> variations])
        festival(foods, variations) ==
            JsObject([name |-> str( <<"T","e","s","t"," ","F","e","s","t","i","v","a","l">> ), culturalMeaning |-> str( <<"T","e","s","t"," ","M","e","a","n","i","n","g">> ),
                      associatedFoods |-> foods,
                      foodSymbolism |-> str( <<"T","e","s","t"," ","S","y","m","b","o","l","i","s","m">> ),
                      emotionalTone |-> str( <<"T","e","s","t"," ","T","o","n","e">> ),
                      regionalVariations |-> variations])
        variationLists == {JsArray(l) : l \in ListsOf(VariationEntries, MaxEntries)}
        foodLists == {JsArray(l) : l \in ListsOf(FoodEntries, MaxEntries)}
    IN  { JsNull, JsUndefined, JsNumber(5), str( <<"K","e","k","a">> ), JsArray(<<>>),
          JsObject([term |-> str( <<"T","e","s","t"," ","T","e","r","m">> ), literalMeaning |-> str( <<"T","e","s","t"," ","M","e","a","n","i","n","g">> )]),
          JsObject([name |-> str( <<"T","e","s","t"," ","F","o","o","d">> ), city |-> str( <<"T","e","s","t"," ","C","i","t","y">> ),
                    spiceLevel |-> str( <<"m","e","d","i","u","m">> ), bestTime |-> str( <<"E","v","e","n","i","n","g">> ),
                    description |-> str( <<"T","e","s","t"," ","D","e","s","c","r","i","p","t","i","o","n">> )]),
          JsObject([name |-> str( <<"T","e","s","t"," ","F","o","o","d">> ), city |-> JsNumber(5),
                    spiceLevel |-> str( <<"i","n","v","a","l","i","d","-","l","e","v","e","l">> ), bestTime |-> JsNull,
                    description |-> str( <<"T","e","s","t"," ","D","e","s","c","r","i","p","t","i","o","n">> )]),
          JsObject([emotion |-> str( <<"s","a","d">> ), recommendedFood |-> str( <<"P","a","p","p","u">> ),
                    emotionalLogic |-> str( <<"C","o","m","f","o","r","t">> ), homeVsStreet |-> str( <<"h","o","m","e">> )]),
          JsObject([emotion |-> str( <<"S","a","d">> ), recommendedFood |-> JsArray(<<>>),
                    emotionalLogic |-> JsUndefined, homeVsStreet |-> str( <<"h","o","m","e">> )]) }
        \cup {slang(v) : v \in variationLists \cup {JsUndefined, JsNull, str( <<"g","u","n","t","u","r">> )}}
        \cup {festival(f, JsUndefined) : f \in foodLists \cup {JsNull, str( <<"P","o","n","g","a","l">> )}}
        \cup {festival(JsArray(<<str( <<"P","o","n","g","a","l">> )>>), v) : v \in variationLists}

ValidatorInit ==
    \E validator \in {"validateSlangInfo", "validateFoodInfo", "validateFestivalInfo",
                      "validateEmotionFoodMapping"} :
        PendingCall(validator, {<<value>> : value \in ValidatorCandidates})

ValidateSlangInfo ==
    /\ lastCall.op = "validateSlangInfo"
    /\ lastCall.ret = Pending
    /\ lastCall' = [lastCall EXCEPT !.ret = validateSlangInfo(lastCall.args[1])]
    /\ UNCHANGED <<productMd, slangData, foodData, festivalData, emotionFoodData,
                   isLoaded, pc, formatterVars>>

ValidateFoodInfo ==
    /\ lastCall.op = "validateFoodInfo"
    /\ lastCall.ret = Pending
    /\ lastCall' = [lastCall EXCEPT !.ret = validateFoodInfo(lastCall.args[1])]
    /\ UNCHANGED <<productMd, slangData, foodData, festivalData, emotionFoodData,
                   isLoaded, pc, formatterVars>>

ValidateFestivalInfo ==
    /\ lastCall.op = "validateFestivalInfo"
    /\ lastCall.ret = Pending
    /\ lastCall' = [lastCall EXCEPT !.ret = validateFestivalInfo(lastCall.args[1])]
    /\ UNCHANGED <<productMd, slangData, foodData, festivalData, emotionFoodData,
                   isLoaded, pc, formatterVars>>

ValidateEmotionFoodMapping ==
    /\ lastCall.op = "validateEmotionFoodMapping"
    /\ lastCall.ret = Pending
    /\ lastCall' = [lastCall EXCEPT !.ret = validateEmotionFoodMapping(lastCall.args[1])]
    /\ UNCHANGED <<productMd, slangData, foodData, festivalData, emotionFoodData,
                   isLoaded, pc, formatterVars>>

ValidatorNext ==
    \/ ValidateSlangInfo
    \/ ValidateFoodInfo
    \/ ValidateFestivalInfo
    \/ ValidateEmotionFoodMapping

ValidatorSpec == ValidatorInit /\ [][ValidatorNext]_vars

\* C16: each record validator returns a boolean and never throws for every candidate
\* value: null, non-objects, records with missing or non-string fields, and records
\* whose regionalVariations or associatedFoods lists contain null, undefined or
\* non-object entries.
C16_ValidatorsNeverThrow ==
    (/\ lastCall.op \in {"validateSlangInfo", "validateFoodInfo", "validateFestivalInfo",
                         "validateEmotionFoodMapping"}
     /\ lastCall.ret # Pending) =>
        lastCall.ret \in {Returns(TRUE), Returns(FALSE)}

---------------------------------------------------------------------------
\* validateResponseFormat on arbitrary contents

\* contents made of a warmth marker, a vocabulary word, a technical term, plain words,
\* terminal punctuation and trailing whitespace, each present or not
ValidationTexts ==
    LET pieces == << <<"T","r","u","s","t"," ","m","e",","," ">>, <<"P","a","p","p","u"," ">>, <<"t","h","e"," ","S","y","s","t","e","m"," ">>, <<"i","s"," ","r","e","a","d","y">>, <<"!">>, <<" ","\n">> >>
    IN  {concatAll([k \in DOMAIN pieces |-> IF k \in chosen THEN pieces[k] ELSE <<>>]) :
            chosen \in SUBSET DOMAIN pieces}

ValidateInit ==
    /\ StoreIdle
    /\ response = Null
    /\ formatted \in ValidationTexts
    /\ validation = Null
    /\ fpc = "formatted"

ValidateNext == ValidateResponseFormat

ValidateSpec == ValidateInit /\ [][ValidateNext]_vars

\* C17: validateResponseFormat reports one issue for each of its four checks that fails
\* (vocabulary word missing, technical term present, warmth marker missing, no terminal
\* punctuation), each independently of the others, and isValid is true exactly when the
\* issue list is empty.
C17_ReportsEveryFailingCheck ==
    fpc = "validated" =>
        LET lower == toLowerCase(formatted)
            last == prevNonSpace(formatted, Len(formatted) + 1)
            reported(issue) == \E i \in DOMAIN validation.issues : validation.issues[i] = issue
            failing ==
                {c \in {"vocabulary", "technical", "warmth", "punctuation"} :
                    CASE c = "vocabulary" ->
                           \A k \in DOMAIN validationTeluguWords :
                               ~includes(lower, validationTeluguWords[k])
                      [] c = "technical" ->
                           \E k \in DOMAIN validationTechnicalTerms :
                               includes(lower, toLowerCase(validationTechnicalTerms[k]))
                      [] c = "warmth" ->
                           \A k \in DOMAIN warmthIndicators :
                               ~includes(lower, warmthIndicators[k])
                      [] c = "punctuation" ->
                           last = 0 \/ formatted[last] \notin {".", "!", "?"}}
        IN  /\ reported( <<"R","e","s","p","o","n","s","e"," ","s","h","o","u","l","d"," ","i","n","c","l",
                           "u","d","e"," ","T","e","l","u","g","u"," ","v","o","c","a","b","u","l","a","r",
                           "y">> )
                   <=> "vocabulary" \in failing
            /\ reported( <<"R","e","s","p","o","n","s","e"," ","c","o","n","t","a","i","n","s"," ","t","e",
                           "c","h","n","i","c","a","l"," ","i","m","p","l","e","m","e","n","t","a","t","i",
                           "o","n"," ","d","e","t","a","i","l","s">> )
                   <=> "technical" \in failing
            /\ reported( <<"R","e","s","p","o","n","s","e"," ","s","h","o","u","l","d"," ","h","a","v","e",
                           " ","w","a","r","m",","," ","f","r","i","e","n","d","l","y"," ","t","o","n","e">> )
                   <=> "warmth" \in failing
            /\ reported( <<"R","e","s","p","o","n","s","e"," ","s","h","o","u","l","d"," ","e","n","d"," ",
                           "w","i","t","h"," ","p","r","o","p","e","r"," ","p","u","n","c","t","u","a","t",
                           "i","o","n">> )
                   <=> "punctuation" \in failing
            /\ Len(validation.issues) = Cardinality(failing)
            /\ validation.isValid <=> validation.issues = <<>>

\* a content that fails all four checks has been validated and four issues are reported
C17_Witness ==
    /\ fpc = "validated"
    /\ formatted = <<"t","h","e"," ","S","y","s","t","e","m"," ","i","s"," ","r","e","a","d","y">>
    /\ Len(validation.issues) = 4
    /\ ~validation.isValid

---------------------------------------------------------------------------
\* ValidationService.sanitizeInput

\* the argument of substring(0, 100)
MaxSelectionLength == 100

\* s.substring(0, n)
substring0(s, n) == SubSeq(s, 1, IF Len(s) < n THEN Len(s) ELSE n)

\* an absent selection or preferences field is undefined
sanitizeInput(input) ==
    LET selection == IF "selection" \in DOMAIN input
                     THEN substring0(trim(input.selection), MaxSelectionLength)
                     ELSE <<>>
    IN  IF "preferences" \in DOMAIN input
        THEN [category |-> input.category, selection |-> selection,
              preferences |->
                  [f \in DOMAIN input.preferences
                            \cap {"spiceLevel", "dietary", "formality", "region"} |->
                      input.preferences[f]]]
        ELSE [category |-> input.category, selection |-> selection]

\* selections around the limit of 100 characters, padded with whitespace
Selections ==
    LET repeat(c, n) == [i \in 1..n |-> c]
        bodies == {repeat("a", n) : n \in {0, 1, 99, 100, 101, 150}}
                      \cup {repeat("a", n) \o <<" ","b">> : n \in {1, 98, 99, 100}}
    IN  {before \o body \o after : before \in {<<>>, <<" "," ">>, <<"\n","\t">> },
                                   body \in bodies,
                                   after \in {<<>>, <<" "," ">> }}

UserInputs ==
    {[category |-> <<"s","l","a","n","g">> ]}
        \cup {[category |-> <<"s","l","a","n","g">>, selection |-> s] : s \in Selections}
        \cup {[category |-> <<"f","o","o","d">>, selection |-> <<" ","G","u","n","t","u","r"," ">>,
               preferences |-> [spiceLevel |-> <<"h","i","g","h">>, region |-> <<"g","u","n","t","u","r">> ]]}

SanitizeInit == PendingCall("sanitizeInput", {<<input>> : input \in UserInputs})

SanitizeInput ==
    /\ lastCall.op = "sanitizeInput"
    /\ lastCall.ret = Pending
    /\ lastCall' = [lastCall EXCEPT !.ret = [input |-> sanitizeInput(lastCall.args[1])]]
    /\ UNCHANGED <<productMd, slangData, foodData, festivalData, emotionFoodData,
                   isLoaded, pc, formatterVars>>

SanitizeNext == SanitizeInput

SanitizeSpec == SanitizeInit /\ [][SanitizeNext]_vars

\* C19: for every input selection string, sanitizeInput returns a selection that is at
\* most 100 characters long and has no leading or trailing whitespace.
C19_SelectionTrimmedAndBounded ==
    (lastCall.op = "sanitizeInput" /\ lastCall.ret # Pending) =>
        LET selection == lastCall.ret.input.selection
        IN  /\ Len(selection) <= 100
            /\ selection # <<>> =>
                   ~IsSpace(selection[1]) /\ ~IsSpace(selection[Len(selection)])

---------------------------------------------------------------------------
\* AndhraCulturalGuide.getCulturalGuidance and the steps it runs.  An absent preferences
\* argument is Null, the object {} is the empty record <<>>, and a step that throws
\* returns [threw |-> TRUE, message |-> the Error's message].

ThrowsError(message) == [threw |-> TRUE, message |-> message]

\* const x = value; Body(x): the value is computed once, whatever the number of times
\* the body reads it
bind(value, Body(_)) == CHOOSE result \in {Body(x) : x \in {value}} : TRUE

\* list.join(separator)
join(list, separator) ==
    concatAll([i \in DOMAIN list |-> IF i = 1 THEN list[i] ELSE separator \o list[i]])

\* this.categories of the dropdown, this.validCategories of the input processor
categories == << <<"s","l","a","n","g">>, <<"f","o","o","d">>, <<"f","e","s","t","i","v","a","l">>, <<"e","m","o","t","i","o","n">> >>

\* this.subcategories of the dropdown
subcategories ==
    [category \in Range(categories) |->
        CASE category = <<"s","l","a","n","g">> ->
                << <<"g","r","e","e","t","i","n","g"," ","e","x","p","r","e","s","s","i","o","n","s">>, <<"e","m","o","t","i","o","n","a","l"," ","e","x","p","r","e","s","s","i","o","n",
                                               "s">>,
                   <<"c","a","s","u","a","l"," ","c","o","n","v","e","r","s","a","t","i","o","n">>, <<"f","a","m","i","l","y"," ","t","e","r","m","s">>, <<"f","o","o","d","-","r","e","l","a","t","e","d"," ","s","l","a","n","g">> >>
          [] category = <<"f","o","o","d">> ->
                << <<"b","r","e","a","k","f","a","s","t"," ","i","t","e","m","s">>, <<"s","t","r","e","e","t"," ","f","o","o","d">>, <<"m","a","i","n"," ","m","e","a","l","s">>, <<"s","n","a","c","k","s">>,
                   <<"b","e","v","e","r","a","g","e","s">>, <<"s","w","e","e","t","s">> >>
          [] category = <<"f","e","s","t","i","v","a","l">> ->
                << <<"U","g","a","d","i">>, <<"S","a","n","k","r","a","n","t","i">>, <<"D","u","s","s","e","h","r","a">>, <<"D","i","w","a","l","i">>,
                   <<"V","i","n","a","y","a","k","a"," ","C","h","a","v","i","t","h","i">>, <<"S","h","i","v","a","r","a","t","r","i">> >>
          [] category = <<"e","m","o","t","i","o","n">> ->
                << <<"s","a","d">>, <<"h","a","p","p","y">>, <<"a","n","g","r","y">>, <<"t","i","r","e","d">>, <<"s","i","c","k">>, <<"e","x","c","i","t","e","d">>,
                   <<"s","t","r","e","s","s","e","d">> >>]

\* the four checks of validatePreferences, in the order the code makes them
preferenceChecks == <<
    [field |-> "spiceLevel", label |-> <<"s","p","i","c","e"," ","l","e","v","e","l">>,
     valid |-> << <<"l","o","w">>, <<"m","e","d","i","u","m">>, <<"h","i","g","h">>, <<"e","x","t","r","e","m","e">> >>],
    [field |-> "dietary", label |-> <<"d","i","e","t","a","r","y"," ","p","r","e","f","e","r","e","n","c","e">>,
     valid |-> << <<"v","e","g">>, <<"n","o","n","-","v","e","g">>, <<"a","n","y">> >>],
    [field |-> "formality", label |-> <<"f","o","r","m","a","l","i","t","y"," ","l","e","v","e","l">>,
     valid |-> << <<"f","o","r","m","a","l">>, <<"i","n","f","o","r","m","a","l">> >>],
    [field |-> "region", label |-> <<"r","e","g","i","o","n">>,
     valid |-> << <<"c","o","a","s","t","a","l">>, <<"g","u","n","t","u","r">>, <<"r","a","y","a","l","a","s","e","e","m","a">> >>] >>

\* preferences.field, with undefined and '' both the empty string (both are falsy)
preference(preferences, field) ==
    IF preferences # Null /\ field \in DOMAIN preferences THEN preferences[field] ELSE <<>>

\* the indices of the checks that fail: preferences.x && !valid.includes(preferences.x)
failedChecks(preferences) ==
    {k \in DOMAIN preferenceChecks :
        LET value == preference(preferences, preferenceChecks[k].field)
        IN  value # <<>> /\ value \notin Range(preferenceChecks[k].valid)}

\* DropdownInterfaceImpl.validatePreferences: throws at the first check that fails
validatePreferences(preferences) ==
    IF failedChecks(preferences) = {} THEN Returns(TRUE)
    ELSE LET check == preferenceChecks[Min(failedChecks(preferences))]
         IN  ThrowsError( <<"I","n","v","a","l","i","d"," ">> \o check.label \o <<":"," ","\"">>
                          \o preference(preferences, check.field)
                          \o <<"\"","."," ","P","l","e","a","s","e"," ","c","h","o","o","s","e"," ","f","r","o",
                               "m",":"," ">> \o join(check.valid, <<","," ">> ))

processSelection(category, selection, preferences) ==
    IF category \notin Range(categories)
    THEN ThrowsError( <<"I","n","v","a","l","i","d"," ","c","a","t","e","g","o","r","y",":"," ">> \o category \o <<"."," ","P","l","e","a","s","e"," ","s","e","l","e","c","t"," ","f","r","o","m",
                                                              ":"," ">>
                      \o join(categories, <<","," ">> ))
    ELSE IF trim(selection) = <<>>
    THEN ThrowsError( <<"P","l","e","a","s","e"," ","p","r","o","v","i","d","e"," ","a"," ","s","e","l",
                        "e","c","t","i","o","n"," ","f","o","r"," ","y","o","u","r"," ","c","h","o","s",
                        "e","n"," ","c","a","t","e","g","o","r","y">> )
    ELSE IF selection \notin Range(subcategories[category])
    THEN ThrowsError( <<"\"">> \o selection \o <<"\""," ","i","s"," ","n","o","t"," ","a","v","a","i","l","a","b","l","e"," ","f",
                                               "o","r"," ">> \o category
                      \o <<"."," ","A","v","a","i","l","a","b","l","e"," ","o","p","t","i","o","n","s",":",
                           " ">> \o join(subcategories[category], <<","," ">> ))
    ELSE IF preferences # Null /\ validatePreferences(preferences).threw
    THEN validatePreferences(preferences)
    ELSE Returns([category |-> category, selection |-> trim(selection),
                  preferences |-> preferences])

\* validateInput with a validatePreferences that takes a preference set to '' for an
\* invalid value
validateInput_EmptyIsInvalid(input) ==
    /\ input.category # <<>> /\ input.category \in Range(categories)
    /\ trim(input.selection) # <<>>
    /\ input.preferences # Null =>
           \A k \in DOMAIN preferenceChecks :
               preferenceChecks[k].field \in DOMAIN input.preferences =>
                   input.preferences[preferenceChecks[k].field]
                       \in Range(preferenceChecks[k].valid)

\* InputProcessorImpl.validateInput; its validatePreferences makes the same four checks
validateInput(input) ==
    /\ input.category # <<>> /\ input.category \in Range(categories)
    /\ trim(input.selection) # <<>>
    /\ input.preferences # Null => failedChecks(input.preferences) = {}

\* ErrorHandler.createInputValidationError(input).message
createInputValidationError(input) ==
    LET prefErrors == [k \in 1..Cardinality(failedChecks(input.preferences)) |->
                          LET check == preferenceChecks[
                                  CHOOSE c \in failedChecks(input.preferences) :
                                      Cardinality({d \in failedChecks(input.preferences) :
                                                      d < c}) = k - 1]
                          IN  <<"I","n","v","a","l","i","d"," ">> \o check.label \o <<" ","\"">>
                              \o preference(input.preferences, check.field) \o <<"\"">> ]
    IN  trim( <<"I","n","v","a","l","i","d"," ","i","n","p","u","t"," ","p","r","o","v","i","d",
                "e","d","."," ">>
              \o (IF input.category = <<>>
                  THEN <<"P","l","e","a","s","e"," ","s","e","l","e","c","t"," ","a"," ","v","a","l","i",
                         "d"," ","c","a","t","e","g","o","r","y"," ","(","s","l","a","n","g",","," ","f",
                         "o","o","d",","," ","f","e","s","t","i","v","a","l",","," ","o","r"," ","e","m",
                         "o","t","i","o","n",")","."," ">>
                  ELSE IF input.category \notin Range(categories)
                  THEN <<"\"">> \o input.category
                       \o <<"\""," ","i","s"," ","n","o","t"," ","a"," ","v","a","l","i","d"," ","c","a","t",
                            "e","g","o","r","y","."," ","C","h","o","o","s","e"," ","f","r","o","m"," ","s",
                            "l","a","n","g",","," ","f","o","o","d",","," ","f","e","s","t","i","v","a","l",
                            ","," ","o","r"," ","e","m","o","t","i","o","n","."," ">>
                  ELSE <<>>)
              \o (IF trim(input.selection) = <<>>
                  THEN <<"P","l","e","a","s","e"," ","p","r","o","v","i","d","e"," ","a"," ","s","e","l",
                         "e","c","t","i","o","n"," ","f","o","r"," ","y","o","u","r"," ","c","h","o","s",
                         "e","n"," ","c","a","t","e","g","o","r","y","."," ">> ELSE <<>>)
              \o (IF Len(prefErrors) > 0
                  THEN <<"P","r","e","f","e","r","e","n","c","e"," ","e","r","r","o","r","s",":"," ">> \o join(prefErrors, <<","," ">> ) \o <<"."," ">>
                  ELSE <<>>))

\* enrichInput: the timestamp and the sessionId it adds are read by no later step
enrichInput(input) ==
    IF ~validateInput(input) THEN ThrowsError(createInputValidationError(input))
    ELSE Returns(input)

\* inferIntent and inferContext; currentHour is new Date().getHours()
inferIntent(input, currentHour) ==
    IF ~validateInput(input) THEN ThrowsError(createInputValidationError(input))
    ELSE Returns([category |-> input.category,
                  selection |-> trim(input.selection),
                  preferences |-> IF input.preferences # Null THEN input.preferences
                                  ELSE <<>>,
                  context |-> [region |-> preference(input.preferences, "region"),
                               timeOfDay |->
                                   IF currentHour >= 6 /\ currentHour < 10 THEN <<"m","o","r","n","i","n","g">>
                                   ELSE IF currentHour >= 10 /\ currentHour < 16
                                   THEN <<"a","f","t","e","r","n","o","o","n">>
                                   ELSE IF currentHour >= 16 /\ currentHour < 20
                                   THEN <<"e","v","e","n","i","n","g">>
                                   ELSE <<"n","i","g","h","t">> ]])

\* ResponseGeneratorImpl.  The store's lookups and the fallback builders return for every
\* argument, so the try blocks of the four generators run to their end.

generateSlangResponseWithFallback(this, intent) ==
    bind(getSlangInfoWithFallback(this, intent.selection), LAMBDA slangInfo :
    LET variations == IF "regionalVariations" \in DOMAIN slangInfo
                      THEN slangInfo.regionalVariations ELSE <<>>
    IN  IF "isApproximation" \in DOMAIN slangInfo THEN slangInfo.content
        ELSE <<"\"">> \o slangInfo.term \o <<"\""," ","l","i","t","e","r","a","l","l","y"," ","m","e","a","n","s"," ","\"">> \o slangInfo.literalMeaning
             \o <<"\"","."," ">>
             \o <<"T","h","e"," ","e","m","o","t","i","o","n","a","l"," ","i","n","t","e","n","t",
                  " ","i","s"," ">> \o toLowerCase(slangInfo.emotionalIntent) \o <<"."," ">>
             \o <<"I","t","'","s"," ">> \o toLowerCase(slangInfo.socialAppropriateness) \o <<","," ">>
             \o <<"a","n","d"," ","i","t","'","s"," ","d","e","f","i","n","i","t","e","l","y"," ">> \o slangInfo.formalityLevel \o <<" ","l","a","n","g","u","a","g","e","."," ">>
             \o (IF Len(variations) > 0
                 THEN <<"D","i","f","f","e","r","e","n","t"," ","r","e","g","i","o","n","s"," ","h","a",
                        "v","e"," ","t","h","e","i","r"," ","o","w","n"," ","t","o","u","c","h"," ","-",
                        " ">>
                      \o join([k \in DOMAIN variations |->
                                  <<"i","n"," ">> \o variations[k].region \o <<","," ","t","h","e","y"," ","s","a","y"," ","\"">>
                                  \o variations[k].variation \o <<"\"">> ], <<","," ">> )
                      \o <<"."," ">>
                 ELSE <<>>)
             \o <<"T","h","a","t","'","s"," ","h","o","w"," ","w","e"," ","e","x","p","r","e","s",
                  "s"," ","o","u","r","s","e","l","v","e","s"," ","i","n"," ","A","n","d","h","r",
                  "a"," ","c","u","l","t","u","r","e","!">> )

\* extractCityFromSelection(selection) || 'visakhapatnam'
cityOfSelection(selection) ==
    LET cities == << <<"v","i","s","a","k","h","a","p","a","t","n","a","m">>, <<"v","i","j","a","y","a","w","a","d","a">>, <<"g","u","n","t","u","r">>, <<"t","i","r","u","p","a","t","i">>, <<"v","i","z","a","g">> >>
        found == {k \in DOMAIN cities : includes(toLowerCase(selection), cities[k])}
    IN  IF found # {} THEN cities[Min(found)] ELSE <<"v","i","s","a","k","h","a","p","a","t","n","a","m">>

generateFoodResponseWithFallback(this, intent) ==
    LET city == cityOfSelection(intent.selection)
        spiceLevel == preference(intent.preferences, "spiceLevel")
        dietary == preference(intent.preferences, "dietary")
        foodPreferences ==
            [spiceLevel |-> IF spiceLevel # <<>> THEN spiceLevel ELSE <<"m","e","d","i","u","m">>,
             dietary |-> IF dietary # <<>> THEN dietary ELSE <<"a","n","y">>,
             timeOfDay |-> intent.context.timeOfDay,
             region |-> preference(intent.preferences, "region")]
    IN  bind(getFoodInfoWithFallback(this, city, foodPreferences), LAMBDA foodResult :
    LET selectedFood == foodResult.array[1]
        bestTime == toLowerCase(selectedFood.bestTime)
    IN  IF "isApproximation" \in DOMAIN foodResult THEN foodResult.content
        ELSE IF Len(foodResult.array) = 0
        THEN createFoodFallback(city, intent.preferences).content
        ELSE <<"F","o","r"," ">> \o city \o <<","," ","I","'","d"," ","r","e","c","o","m","m","e","n","d"," ">> \o selectedFood.name \o <<"!"," ">>
             \o selectedFood.description \o <<"."," ">>
             \o (IF bestTime = <<"a","n","y">> THEN <<"I","t","'","s"," ","p","e","r","f","e","c","t"," ","f","o","r"," ","a","n","y",
                                              " ","t","i","m","e"," ","o","f"," ","d","a","y",","," ">>
                 ELSE <<"I","t","'","s"," ","b","e","s","t"," ","e","n","j","o","y","e","d"," ","d","u",
                        "r","i","n","g"," ">> \o bestTime \o <<","," ">> )
             \o <<"a","n","d"," ","t","h","e"," ","s","p","i","c","e"," ","l","e","v","e","l"," ",
                  "i","s"," ">> \o selectedFood.spiceLevel \o <<"."," ">>
             \o (IF "culturalSignificance" \in DOMAIN selectedFood
                    /\ selectedFood.culturalSignificance # <<>>
                 THEN selectedFood.culturalSignificance \o <<"."," ">> ELSE <<>>)
             \o <<"T","h","i","s"," ","i","s"," ","a","u","t","h","e","n","t","i","c"," ","A","n",
                  "d","h","r","a"," ","t","a","s","t","e"," ","t","h","a","t"," ","l","o","c","a",
                  "l","s"," ","l","o","v","e","!">> )

generateFestivalResponseWithFallback(this, intent) ==
    bind(getFestivalInfoWithFallback(this, intent.selection), LAMBDA festivalInfo :
    LET variations == IF "regionalVariations" \in DOMAIN festivalInfo
                      THEN festivalInfo.regionalVariations ELSE <<>>
    IN  IF "isApproximation" \in DOMAIN festivalInfo THEN festivalInfo.content
        ELSE festivalInfo.name \o <<" ","i","s"," ","a","l","l"," ","a","b","o","u","t"," ">>
             \o toLowerCase(festivalInfo.culturalMeaning) \o <<"."," ">>
             \o <<"T","h","e"," ","e","m","o","t","i","o","n","a","l"," ","t","o","n","e"," ","i",
                  "s"," ">> \o toLowerCase(festivalInfo.emotionalTone) \o <<"."," ">>
             \o (IF Len(festivalInfo.associatedFoods) > 0
                 THEN <<"W","e"," ","p","r","e","p","a","r","e"," ","s","p","e","c","i","a","l"," ","f",
                        "o","o","d","s"," ","l","i","k","e"," ">>
                      \o join(festivalInfo.associatedFoods, <<","," ">> ) \o <<"."," ">>
                      \o festivalInfo.foodSymbolism \o <<"."," ">>
                 ELSE <<>>)
             \o (IF Len(variations) > 0
                 THEN <<"D","i","f","f","e","r","e","n","t"," ","r","e","g","i","o","n","s"," ","c","e",
                        "l","e","b","r","a","t","e"," ","i","t"," ","u","n","i","q","u","e","l","y"," ",
                        "-"," ">>
                      \o join([k \in DOMAIN variations |->
                                  variations[k].region \o <<" ","r","e","g","i","o","n"," ">>
                                  \o toLowerCase(variations[k].variation)], <<","," ">> )
                      \o <<"."," ">>
                 ELSE <<>>)
             \o <<"T","h","a","t","'","s"," ","t","h","e"," ","b","e","a","u","t","y"," ","o","f",
                  " ","A","n","d","h","r","a"," ","f","e","s","t","i","v","a","l"," ","t","r","a",
                  "d","i","t","i","o","n","s","!">> )

\* EmotionFoodMapperImpl.considerPreferences with adaptForVegetarian, adaptForSpiceLevel,
\* adaptForRegion and applyHomeVsStreetLogic
considerPreferences(recommendation, preferences) ==
    LET vegAlternatives ==
            [food \in { <<"B","i","r","y","a","n","i">>, <<"C","o","f","f","e","e"," ","w","i","t","h"," ","P","u","n","u","g","u","l","u">> } |->
                IF food = <<"B","i","r","y","a","n","i">> THEN <<"V","e","g"," ","B","i","r","y","a","n","i"," ","w","i","t","h"," ","p","a","n",
                                             "e","e","r">>
                ELSE <<"C","o","f","f","e","e"," ","w","i","t","h"," ","V","e","g"," ","P","u","n","u",
                       "g","u","l","u">> ]
        spiceAdjustments ==
            [level \in Range(preferenceChecks[1].valid) |->
                CASE level = <<"l","o","w">> -> <<"w","i","t","h"," ","m","i","l","d"," ","s","p","i","c","i","n","g">>
                  [] level = <<"m","e","d","i","u","m">> -> <<"w","i","t","h"," ","m","o","d","e","r","a","t","e"," ","s","p","i","c","e"," ",
                                             "l","e","v","e","l">>
                  [] level = <<"h","i","g","h">> -> <<"w","i","t","h"," ","g","o","o","d"," ","s","p","i","c","e"," ","k","i","c","k">>
                  [] level = <<"e","x","t","r","e","m","e">> -> <<"w","i","t","h"," ","m","a","x","i","m","u","m"," ","G","u","n","t","u","r","-",
                                              "s","t","y","l","e"," ","h","e","a","t">> ]
        regionalTouches ==
            [region \in Range(preferenceChecks[4].valid) |->
                CASE region = <<"c","o","a","s","t","a","l">> -> <<"w","i","t","h"," ","c","o","a","s","t","a","l"," ","A","n","d","h","r","a"," ",
                                               "s","t","y","l","e"," ","p","r","e","p","a","r","a","t","i","o","n">>
                  [] region = <<"g","u","n","t","u","r">> ->
                         <<"w","i","t","h"," ","e","x","t","r","a"," ","G","u","n","t","u","r"," ","m","i",
                           "r","c","h","i"," ","f","o","r"," ","t","h","a","t"," ","a","u","t","h","e","n",
                           "t","i","c"," ","k","i","c","k">>
                  [] region = <<"r","a","y","a","l","a","s","e","e","m","a">> ->
                         <<"p","r","e","p","a","r","e","d"," ","i","n"," ","t","r","a","d","i","t","i","o",
                           "n","a","l"," ","R","a","y","a","l","a","s","e","e","m","a"," ","s","t","y","l",
                           "e">> ]
        preferredSpice == preference(preferences, "spiceLevel")
        region == preference(preferences, "region")
        vegetarian ==
            IF preference(preferences, "dietary") = <<"v","e","g">>
               /\ recommendation.food \in DOMAIN vegAlternatives
            THEN [recommendation EXCEPT
                     !.food = vegAlternatives[recommendation.food],
                     !.reasoning = @ \o <<" ","(","a","d","a","p","t","e","d"," ","f","o","r"," ","v","e","g","e","t","a",
                                          "r","i","a","n"," ","p","r","e","f","e","r","e","n","c","e",")">> ]
            ELSE recommendation
        spiced ==
            IF preferredSpice # <<>> /\ vegetarian.spiceLevel # preferredSpice
            THEN [vegetarian EXCEPT
                     !.food = @ \o <<" ">> \o (IF preferredSpice \in DOMAIN spiceAdjustments
                                              THEN spiceAdjustments[preferredSpice]
                                              ELSE <<"u","n","d","e","f","i","n","e","d">> ),
                     !.spiceLevel = preferredSpice,
                     !.reasoning = @ \o <<" ","(","a","d","j","u","s","t","e","d"," ","t","o"," ","y","o","u","r"," ">> \o preferredSpice
                                     \o <<" ","s","p","i","c","e"," ","p","r","e","f","e","r","e","n","c","e",")">> ]
            ELSE vegetarian
        regional ==
            IF region # <<>> /\ region \in DOMAIN regionalTouches
            THEN [spiced EXCEPT
                     !.food = @ \o <<" ">> \o regionalTouches[region],
                     !.culturalContext = @ \o <<" ","T","h","i","s"," ">> \o region
                         \o <<" ","r","e","g","i","o","n"," ","p","r","e","p","a","r","a","t","i","o","n"," ",
                              "a","d","d","s"," ","a","u","t","h","e","n","t","i","c"," ","l","o","c","a","l",
                              " ","f","l","a","v","o","r",".">> ]
            ELSE spiced
    IN  bind(regional, LAMBDA adapted :
        bind(toLowerCase(adapted.culturalContext) \o <<" ">> \o toLowerCase(adapted.reasoning),
             LAMBDA emotionContext :
        IF \E emotion \in { <<"s","a","d">>, <<"s","i","c","k">>, <<"a","n","g","r","y">> } : includes(emotionContext, emotion)
        THEN [adapted EXCEPT
                 !.reasoning = @ \o <<" ","B","e","s","t"," ","e","n","j","o","y","e","d"," ","a","t"," ","h","o","m",
                                      "e"," ","f","o","r"," ","t","h","a","t"," ","p","e","r","s","o","n","a","l"," ",
                                      "c","o","m","f","o","r","t",".">>,
                 !.culturalContext = @
                     \o <<" ","H","o","m","e","-","s","t","y","l","e"," ","p","r","e","p","a","r","a","t",
                          "i","o","n"," ","b","r","i","n","g","s"," ","o","u","t"," ","t","h","e"," ","e",
                          "m","o","t","i","o","n","a","l"," ","h","e","a","l","i","n","g"," ","a","s","p",
                          "e","c","t",".">> ]
        ELSE IF \E emotion \in { <<"h","a","p","p","y">>, <<"t","i","r","e","d">> } : includes(emotionContext, emotion)
        THEN [adapted EXCEPT
                 !.reasoning = @ \o <<" ","P","e","r","f","e","c","t"," ","t","o"," ","g","r","a","b"," ","f","r","o",
                                      "m"," ","y","o","u","r"," ","f","a","v","o","r","i","t","e"," ","l","o","c","a",
                                      "l"," ","s","p","o","t","!">>,
                 !.culturalContext = @
                     \o <<" ","S","t","r","e","e","t","-","s","t","y","l","e"," ","p","r","e","p","a","r",
                          "a","t","i","o","n"," ","a","d","d","s"," ","t","h","a","t"," ","a","u","t","h",
                          "e","n","t","i","c"," ","l","o","c","a","l"," ","f","l","a","v","o","r"," ","a",
                          "n","d"," ","s","o","c","i","a","l"," ","e","n","e","r","g","y",".">> ]
        ELSE adapted))

explainEmotionalLogic(emotion, food) ==
    LET normalizedEmotion == trim(toLowerCase(emotion))
    IN  IF normalizedEmotion \notin DOMAIN mapperEmotionMappings
           \/ toLowerCase(mapperEmotionMappings[normalizedEmotion].food) # toLowerCase(food)
        THEN <<"T","h","i","s"," ","f","o","o","d"," ","c","h","o","i","c","e"," ","m","i","g",
               "h","t"," ","h","e","l","p"," ","b","a","l","a","n","c","e"," ","y","o","u","r",
               " ">> \o emotion
             \o <<" ","m","o","o","d"," ","t","h","r","o","u","g","h"," ","A","n","d","h","r","a",
                  " ","f","o","o","d"," ","w","i","s","d","o","m">>
        ELSE CASE normalizedEmotion = <<"s","a","d">> ->
                    <<"A","r","e","y",","," ","w","h","e","n"," ","y","o","u","'","r","e"," ","f","e",
                      "e","l","i","n","g"," ","l","o","w",","," ","n","o","t","h","i","n","g"," ","b",
                      "e","a","t","s"," ","t","h","e"," ","c","o","m","f","o","r","t"," ","o","f"," ",
                      "p","a","p","p","u"," ","w","i","t","h"," ","a","v","a","k","a","y","a","."," ",
                      "I","t","'","s"," ","l","i","k","e"," ","a","m","m","a","'","s"," ","h","u","g",
                      " ","i","n"," ","f","o","o","d"," ","f","o","r","m"," ","-"," ","t","h","e"," ",
                      "t","a","n","g","y"," ","p","i","c","k","l","e"," ","c","u","t","s"," ","t","h",
                      "r","o","u","g","h"," ","s","a","d","n","e","s","s"," ","w","h","i","l","e"," ",
                      "t","h","e"," ","d","a","l"," ","p","r","o","v","i","d","e","s"," ","w","a","r",
                      "m","t","h"," ","a","n","d"," ","c","o","m","f","o","r","t",".">>
               [] normalizedEmotion = <<"s","i","c","k">> ->
                    <<"B","a","b","o","i",","," ","w","h","e","n"," ","y","o","u","'","r","e"," ","n",
                      "o","t"," ","w","e","l","l",","," ","r","a","s","a","m"," ","i","s"," ","l","i",
                      "k","e"," ","l","i","q","u","i","d"," ","m","e","d","i","c","i","n","e","!"," ",
                      "T","h","e"," ","p","e","p","p","e","r"," ","a","n","d"," ","t","a","m","a","r",
                      "i","n","d"," ","h","e","l","p"," ","c","l","e","a","r"," ","y","o","u","r"," ",
                      "s","y","s","t","e","m",","," ","a","n","d"," ","i","t","'","s"," ","l","i","g",
                      "h","t"," ","o","n"," ","t","h","e"," ","s","t","o","m","a","c","h","."," ","O",
                      "u","r"," ","e","l","d","e","r","s"," ","a","l","w","a","y","s"," ","s","a","y",
                      " ","\"","r","a","s","a","m"," ","t","h","o"," ","e","v","e","r","y","t","h","i",
                      "n","g"," ","w","i","l","l"," ","b","e"," ","f","i","n","e",".","\"">>
               [] normalizedEmotion = <<"h","a","p","p","y">> ->
                    <<"C","h","a","l","a"," ","s","c","e","n","e"," ","u","n","d","i","!"," ","W","h",
                      "e","n"," ","y","o","u","'","r","e"," ","h","a","p","p","y",","," ","o","n","l",
                      "y"," ","b","i","r","y","a","n","i"," ","c","a","n"," ","m","a","t","c","h"," ",
                      "t","h","a","t"," ","e","n","e","r","g","y","."," ","I","t","'","s"," ","c","e",
                      "l","e","b","r","a","t","i","o","n"," ","f","o","o","d"," ","-"," ","r","i","c",
                      "h",","," ","f","l","a","v","o","r","f","u","l",","," ","a","n","d"," ","m","e",
                      "a","n","t"," ","t","o"," ","b","e"," ","s","h","a","r","e","d"," ","w","i","t",
                      "h"," ","l","o","v","e","d"," ","o","n","e","s","."," ","P","e","r","f","e","c",
                      "t"," ","f","o","r"," ","y","o","u","r"," ","j","o","y","f","u","l"," ","m","o",
                      "o","d","!">>
               [] normalizedEmotion = <<"a","n","g","r","y">> ->
                    <<"L","i","t","e"," ","t","e","e","s","k","o",","," ","w","h","e","n"," ","a","n",
                      "g","e","r"," ","h","e","a","t","s"," ","u","p"," ","y","o","u","r"," ","b","o",
                      "d","y",","," ","c","u","r","d"," ","r","i","c","e"," ","i","s"," ","t","h","e",
                      " ","p","e","r","f","e","c","t"," ","c","o","o","l","a","n","t","."," ","T","h",
                      "e"," ","y","o","g","u","r","t"," ","l","i","t","e","r","a","l","l","y"," ","c",
                      "o","o","l","s"," ","y","o","u","r"," ","s","y","s","t","e","m"," ","d","o","w",
                      "n",","," ","a","n","d"," ","t","h","e"," ","s","i","m","p","l","e"," ","t","a",
                      "s","t","e"," ","h","e","l","p","s"," ","c","a","l","m"," ","y","o","u","r"," ",
                      "m","i","n","d","."," ","V","e","r","y"," ","e","f","f","e","c","t","i","v","e",
                      ","," ","t","r","u","s","t"," ","m","e","!">>
               [] normalizedEmotion = <<"t","i","r","e","d">> ->
                    <<"T","a","g","g","e","d","e"," ","l","e","!"," ","W","h","e","n"," ","y","o","u",
                      "'","r","e"," ","e","x","h","a","u","s","t","e","d",","," ","y","o","u"," ","n",
                      "e","e","d"," ","b","o","t","h"," ","c","a","f","f","e","i","n","e"," ","a","n",
                      "d"," ","c","a","r","b","s","."," ","C","o","f","f","e","e"," ","g","i","v","e",
                      "s"," ","i","n","s","t","a","n","t"," ","e","n","e","r","g","y"," ","w","h","i",
                      "l","e"," ","p","u","n","u","g","u","l","u"," ","p","r","o","v","i","d","e","s",
                      " ","t","h","a","t"," ","s","a","t","i","s","f","y","i","n","g"," ","c","r","u",
                      "n","c","h"," ","a","n","d"," ","q","u","i","c","k"," ","f","u","e","l","."," ",
                      "P","e","r","f","e","c","t"," ","e","v","e","n","i","n","g"," ","c","o","m","b",
                      "o","!">>

generateEmotionResponseWithFallback(intent) ==
    bind(considerPreferences(mapEmotionToFood(intent.selection), intent.preferences),
         LAMBDA adaptedRecommendation :
        <<"W","h","e","n"," ","y","o","u","'","r","e"," ","f","e","e","l","i","n","g"," ">> \o intent.selection \o <<","," ">> \o adaptedRecommendation.food
        \o <<" ","i","s"," ","p","e","r","f","e","c","t","!"," ">>
        \o adaptedRecommendation.reasoning \o <<"."," ">>
        \o adaptedRecommendation.culturalContext \o <<"."," ">>
        \o explainEmotionalLogic(intent.selection, adaptedRecommendation.food))

\* this.teluguVocabulary
teluguVocabulary ==
    [category \in Range(categories) |->
        CASE category = <<"s","l","a","n","g">> ->
                << <<"b","a","b","u">>, <<"a","m","m","a">>, <<"a","r","e","y">>, <<"b","a","b","o","i">>, <<"c","h","i","n","n","o","d","u">>, <<"p","e","d","d","a">>, <<"m","a","m","a">>,
                   <<"m","a","m","i">> >>
          [] category = <<"f","o","o","d">> ->
                << <<"p","a","p","p","u">>, <<"a","v","a","k","a","y","a">>, <<"r","a","s","a","m">>, <<"b","i","r","y","a","n","i">>, <<"p","u","n","u","g","u","l","u">>, <<"k","a","r","a","m">>,
                   <<"p","a","c","h","a","d","i">>, <<"g","o","n","g","u","r","a">> >>
          [] category = <<"f","e","s","t","i","v","a","l">> ->
                << <<"p","a","n","d","u","g","a">>, <<"p","r","a","s","a","d","a","m">>, <<"p","o","o","j","a">>, <<"k","a","l","y","a","n","a","m">>, <<"s","a","n","k","r","a","n","t","i">>,
                   <<"u","g","a","d","i">> >>
          [] category = <<"e","m","o","t","i","o","n">> ->
                << <<"s","a","n","t","o","s","h","a","m">>, <<"b","a","d","h","a">>, <<"k","o","p","a","m">>, <<"s","h","a","n","t","h","a","m">>, <<"j","o","s","h">>, <<"l","i","t","e">> >>]

\* Math.floor(Math.random() * length) + 1, for a Math.random() of random tenths
randomIndex(random, length) == (random * length) \div 10 + 1

\* selectTeluguWords for a count of 1 or 2: the second word is spliced out of what the
\* first draw left
selectTeluguWords(category, count, random) ==
    LET words == teluguVocabulary[category]
        first == randomIndex(random[1], Len(words))
        availableWords == SubSeq(words, 1, first - 1) \o SubSeq(words, first + 1, Len(words))
    IN  IF count = 1 THEN <<words[first]>>
        ELSE <<words[first], availableWords[randomIndex(random[2], Len(availableWords))]>>

integrateTeluguWords(content, teluguWords) ==
    LET firstWord == teluguWords[1]
    IN  IF Len(teluguWords) > 0
           /\ ~\E k \in DOMAIN teluguWords : includes(toLowerCase(content), teluguWords[k])
        THEN IF firstWord \in { <<"a","r","e","y">>, <<"b","a","b","o","i">> }
             THEN <<toUpperChar(firstWord[1])>> \o Tail(firstWord) \o <<","," ">>
                  \o toLowerCase(content)
             ELSE content \o <<" ","T","h","a","t","'","s"," ","h","o","w"," ","w","e"," ","s","a","y"," ","i",
                               "t",","," ">> \o firstWord \o <<"!">>
        ELSE content

\* generateResponse for an intent of one of the four categories
generateResponse(this, intent, random) ==
    bind(CASE intent.category = <<"s","l","a","n","g">> -> generateSlangResponseWithFallback(this, intent)
           [] intent.category = <<"f","o","o","d">> -> generateFoodResponseWithFallback(this, intent)
           [] intent.category = <<"f","e","s","t","i","v","a","l">> ->
                  generateFestivalResponseWithFallback(this, intent)
           [] intent.category = <<"e","m","o","t","i","o","n">> -> generateEmotionResponseWithFallback(intent),
         LAMBDA content :
    bind(selectTeluguWords(intent.category, 2, random), LAMBDA teluguWords :
        [content |-> integrateTeluguWords(content, teluguWords),
         teluguWords |-> teluguWords,
         culturalTone |-> <<"w","a","r","m"," ","a","n","d"," ","f","r","i","e","n","d","l","y">>,
         region |-> intent.context.region,
         category |-> intent.category]))

\* RegionalAdapterImpl.adaptTone with applyCoastalTone, applyGunturTone and
\* applyRayalaseemaTone: random[3] decides whether a phrase is added, random[4] which
adaptTone(content, region, random) ==
    LET phrases ==
            CASE region = <<"c","o","a","s","t","a","l">> ->
                    << <<"B","a","b","u",","," ">>, <<"A","m","m","a",","," ">>, <<","," ","k","a","d","a","?">>, <<","," ","l","e">>, <<"C","h","a","l","a"," ","b","a","g","u","n","d","i",","," ">> >>
              [] region = <<"g","u","n","t","u","r">> ->
                    << <<"R","e","y",","," ">>, <<"M","a","m","a",","," ">>, <<"!"," ","P","a","k","k","a"," ","g","u","a","r","a","n","t","e","e","!">>, <<","," ","a","b","b","a","!">>,
                       <<"S","u","p","e","r"," ","s","p","i","c","y",","," ">> >>
              [] region = <<"r","a","y","a","l","a","s","e","e","m","a">> ->
                    << <<"A","n","n","a",","," ">>, <<"A","y","y","a",","," ">>, <<","," ","c","h","e","l","l","i">>, <<","," ","s","i","m","p","l","e"," ","g","a">>,
                       <<"T","r","a","d","i","t","i","o","n","a","l"," ","g","a",","," ">> >>
              [] OTHER -> <<>>
        threshold == IF region = <<"g","u","n","t","u","r">> THEN 6 ELSE 7
        phrase == phrases[randomIndex(random[4], Len(phrases))]
    IN  IF Len(phrases) > 0 /\ random[3] > threshold
        THEN IF endsWith(phrase, <<","," ">> ) THEN phrase \o content ELSE content \o phrase
        ELSE content

\* applyRegionalContext with getRegionalCulturalContext(targetRegion).tone
applyRegionalContext(resp, region, random) ==
    LET targetRegion == IF region # <<>> THEN region ELSE resp.region
    IN  IF region = <<>> /\ resp.region = <<>> THEN resp
        ELSE [resp EXCEPT
                 !.content = adaptTone(resp.content, targetRegion, random),
                 !.culturalTone = CASE targetRegion = <<"c","o","a","s","t","a","l">> -> <<"g","e","n","t","l","e"," ","a","n","d"," ","s","o","f","t">>
                                    [] targetRegion = <<"g","u","n","t","u","r">> -> <<"b","o","l","d"," ","a","n","d"," ","d","i","r","e","c","t">>
                                    [] targetRegion = <<"r","a","y","a","l","a","s","e","e","m","a">> ->
                                           <<"r","u","s","t","i","c"," ","a","n","d"," ","t","r","a","d","i","t","i","o","n",
                                             "a","l">>,
                 !.region = targetRegion]

\* getSuggestions: getSubcategories throws for a category outside the four, and the
\* catch returns []
getSuggestions(category, failedSelection) ==
    LET lowerFailed == toLowerCase(failedSelection)
        similar == SelectSeq(subcategories[category],
                             LAMBDA sub : \/ includes(toLowerCase(sub), lowerFailed)
                                          \/ includes(lowerFailed, toLowerCase(sub)))
    IN  IF category \notin Range(categories) THEN <<>>
        ELSE IF failedSelection # <<>> /\ Len(similar) > 0
        THEN SubSeq(similar, 1, Min({3, Len(similar)}))
        ELSE CASE category = <<"s","l","a","n","g">> ->
                    << <<"g","r","e","e","t","i","n","g"," ","e","x","p","r","e","s","s","i","o","n","s">>, <<"e","m","o","t","i","o","n","a","l"," ","e","x","p","r","e","s","s","i","o","n",
                                                   "s">>,
                       <<"c","a","s","u","a","l"," ","c","o","n","v","e","r","s","a","t","i","o","n">> >>
               [] category = <<"f","o","o","d">> -> << <<"s","t","r","e","e","t"," ","f","o","o","d">>, <<"b","r","e","a","k","f","a","s","t"," ","i","t","e","m","s">>, <<"s","n","a","c","k","s">> >>
               [] category = <<"f","e","s","t","i","v","a","l">> -> << <<"U","g","a","d","i">>, <<"S","a","n","k","r","a","n","t","i">>, <<"D","u","s","s","e","h","r","a">> >>
               [] category = <<"e","m","o","t","i","o","n">> -> << <<"h","a","p","p","y">>, <<"s","a","d">>, <<"t","i","r","e","d">> >>

\* generateUserFriendlyError for an Error with the given message
generateUserFriendlyError(category, selection, errorMessage) ==
    LET suggestions == getSuggestions(category, selection)
    IN  IF includes(errorMessage, <<"I","n","v","a","l","i","d"," ","c","a","t","e","g","o","r","y">> )
        THEN <<"I"," ","d","o","n","'","t"," ","r","e","c","o","g","n","i","z","e"," ","\"">> \o category
             \o <<"\""," ","a","s"," ","a"," ","c","u","l","t","u","r","a","l"," ","c","a","t","e",
                  "g","o","r","y","."," ","T","r","y"," ","a","s","k","i","n","g"," ","a","b","o",
                  "u","t"," ","s","l","a","n","g",","," ","f","o","o","d",","," ","f","e","s","t",
                  "i","v","a","l","s",","," ","o","r"," ","e","m","o","t","i","o","n","s","!">>
        ELSE IF includes(errorMessage, <<"n","o","t"," ","a","v","a","i","l","a","b","l","e">> )
        THEN <<"I"," ","d","o","n","'","t"," ","h","a","v","e"," ","i","n","f","o","r","m","a",
               "t","i","o","n"," ","a","b","o","u","t"," ","\"">> \o selection \o <<"\""," ","i","n"," ">> \o category
             \o <<"."," ">>
             \o (IF Len(suggestions) > 0
                 THEN <<"H","o","w"," ","a","b","o","u","t"," ","t","r","y","i","n","g",":"," ">> \o join(suggestions, <<","," ">> ) \o <<"?">>
                 ELSE <<"T","r","y"," ","e","x","p","l","o","r","i","n","g"," ","o","t","h","e","r"," ",
                        "o","p","t","i","o","n","s"," ","i","n"," ">> \o category \o <<"!">> )
        ELSE IF includes(errorMessage, <<"v","a","l","i","d","a","t","i","o","n">> )
        THEN <<"T","h","e","r","e"," ","s","e","e","m","s"," ","t","o"," ","b","e"," ","a","n",
               " ","i","s","s","u","e"," ","w","i","t","h"," ","y","o","u","r"," ","s","e","l",
               "e","c","t","i","o","n","."," ","P","l","e","a","s","e"," ","c","h","e","c","k",
               " ","y","o","u","r"," ","c","a","t","e","g","o","r","y"," ","a","n","d"," ","p",
               "r","e","f","e","r","e","n","c","e","s",","," ","t","h","e","n"," ","t","r","y",
               " ","a","g","a","i","n",".">>
        ELSE <<"A","r","e","y",","," ","I","'","m"," ","h","a","v","i","n","g"," ","t","r","o",
               "u","b","l","e"," ","u","n","d","e","r","s","t","a","n","d","i","n","g"," ","y",
               "o","u","r"," ","r","e","q","u","e","s","t","!"," ","P","l","e","a","s","e"," ",
               "t","r","y"," ","s","e","l","e","c","t","i","n","g"," ","a"," ","c","a","t","e",
               "g","o","r","y"," ","(","s","l","a","n","g",","," ","f","o","o","d",","," ","f",
               "e","s","t","i","v","a","l",","," ","o","r"," ","e","m","o","t","i","o","n",")",
               " ","a","n","d"," ","m","a","k","e"," ","a"," ","c","h","o","i","c","e"," ","f",
               "r","o","m"," ","t","h","e"," ","a","v","a","i","l","a","b","l","e"," ","o","p",
               "t","i","o","n","s",".">>

\* ResponseFormatter.formatErrorResponse with getCategorySuggestions
formatErrorResponse(errorMessage, category, random) ==
    LET culturalErrorOpeners == << <<"A","r","e","y">>, <<"B","a","b","o","i">>, <<"S","o","r","r","y"," ","r","a">> >>
        opener == culturalErrorOpeners[randomIndex(random[1], Len(culturalErrorOpeners))]
    IN  opener \o <<","," ">> \o toLowerCase(errorMessage)
        \o (IF category = <<>>
            THEN <<" ","T","r","y"," ","a","s","k","i","n","g"," ","a","b","o","u","t"," ","s","l",
                   "a","n","g",","," ","f","o","o","d",","," ","f","e","s","t","i","v","a","l","s",
                   ","," ","o","r"," ","e","m","o","t","i","o","n","s"," ","-"," ","I","'","m"," ",
                   "h","e","r","e"," ","t","o"," ","h","e","l","p"," ","w","i","t","h"," ","A","n",
                   "d","h","r","a"," ","c","u","l","t","u","r","e","!">>
            ELSE <<" ">> \o
                 (CASE category = <<"s","l","a","n","g">> ->
                         <<"T","r","y"," ","a","s","k","i","n","g"," ","a","b","o","u","t"," ","g","r","e",
                           "e","t","i","n","g"," ","e","x","p","r","e","s","s","i","o","n","s",","," ","e",
                           "m","o","t","i","o","n","a","l"," ","e","x","p","r","e","s","s","i","o","n","s",
                           ","," ","o","r"," ","c","a","s","u","a","l"," ","c","o","n","v","e","r","s","a",
                           "t","i","o","n","!">>
                    [] category = <<"f","o","o","d">> ->
                         <<"T","r","y"," ","a","s","k","i","n","g"," ","a","b","o","u","t"," ","s","t","r",
                           "e","e","t"," ","f","o","o","d",","," ","b","r","e","a","k","f","a","s","t"," ",
                           "i","t","e","m","s",","," ","o","r"," ","s","n","a","c","k","s"," ","f","r","o",
                           "m"," ","d","i","f","f","e","r","e","n","t"," ","c","i","t","i","e","s","!">>
                    [] category = <<"f","e","s","t","i","v","a","l">> ->
                         <<"T","r","y"," ","a","s","k","i","n","g"," ","a","b","o","u","t"," ","U","g","a",
                           "d","i",","," ","S","a","n","k","r","a","n","t","i",","," ","o","r"," ","D","u",
                           "s","s","e","h","r","a"," ","c","e","l","e","b","r","a","t","i","o","n","s","!">>
                    [] category = <<"e","m","o","t","i","o","n">> ->
                         <<"T","r","y"," ","a","s","k","i","n","g"," ","a","b","o","u","t"," ","f","o","o",
                           "d"," ","f","o","r"," ","w","h","e","n"," ","y","o","u","'","r","e"," ","h","a",
                           "p","p","y",","," ","s","a","d",","," ","t","i","r","e","d",","," ","o","r"," ",
                           "e","x","c","i","t","e","d","!">>
                    [] OTHER -> <<"T","r","y"," ","e","x","p","l","o","r","i","n","g"," ","d","i","f","f","e","r",
                                  "e","n","t"," ","c","u","l","t","u","r","a","l"," ","t","o","p","i","c","s","!">> ))

\* getCulturalGuidance: the value its promise resolves to.  random holds the tenths the
\* Math.random() calls draw, currentHour the hour inferContext reads.
getCulturalGuidance(this, category, selection, preferences, random, currentHour) ==
    LET caught(error) ==
            [response |-> formatErrorResponse(
                              generateUserFriendlyError(category, selection, error.message),
                              category, random),
             error |-> error.message]
        formatFinal(finalResponse) ==
            LET greetings == culturalGreetings[IF finalResponse.region # <<>>
                                               THEN finalResponse.region ELSE <<"c","o","a","s","t","a","l">> ]
                closings == culturalClosings[finalResponse.category]
            IN  [response |-> formatResponse(finalResponse,
                                             randomIndex(random[5], Len(greetings)),
                                             randomIndex(random[6], Len(closings)))]
    IN  bind(processSelection(category, selection, preferences), LAMBDA userInput :
        IF userInput.threw THEN caught(userInput)
        ELSE bind(enrichInput(userInput.ret), LAMBDA enrichedInput :
        IF enrichedInput.threw THEN caught(enrichedInput)
        ELSE bind(inferIntent(enrichedInput.ret, currentHour), LAMBDA userIntent :
        IF userIntent.threw THEN caught(userIntent)
        ELSE bind(generateResponse(this, userIntent.ret, random), LAMBDA culturalResponse :
        IF preference(preferences, "region") # <<>>
        THEN bind(applyRegionalContext(culturalResponse, preference(preferences, "region"),
                                       random), formatFinal)
        ELSE formatFinal(culturalResponse)))))

---------------------------------------------------------------------------
\* The guide as a state machine: its constructor builds the store, then
\* getCulturalGuidance is called with any category, selection and preferences.

GuideCategories == Range(categories) \cup { <<"i","n","v","a","l","i","d">>, <<>> }

GuideSelections ==
    { <<"g","r","e","e","t","i","n","g"," ","e","x","p","r","e","s","s","i","o","n","s">>, <<"s","t","r","e","e","t"," ","f","o","o","d">>, <<"U","g","a","d","i">>, <<"S","a","n","k","r","a","n","t","i">>, <<"s","a","d">>,
      <<"e","x","c","i","t","e","d">>, <<"i","n","v","a","l","i","d"," ","s","e","l","e","c","t","i","o","n">>, <<" ","s","a","d">>, <<>> }

GuidePreferences ==
    { Null, <<>>,
      [dietary |-> <<"v","e","g">>, region |-> <<"g","u","n","t","u","r">> ],
      [formality |-> <<"f","o","r","m","a","l">>, region |-> <<"c","o","a","s","t","a","l">> ],
      [spiceLevel |-> <<"l","o","w">>, dietary |-> <<"n","o","n","-","v","e","g">>, region |-> <<"r","a","y","a","l","a","s","e","e","m","a">> ],
      [spiceLevel |-> <<>>, region |-> <<>> ],
      [spiceLevel |-> <<"m","i","l","d">> ],
      [dietary |-> <<"v","e","g">>, region |-> <<"t","e","l","a","n","g","a","n","a">> ] }

\* what a call reads from its environment: the tenths its six Math.random() calls draw
\* and the hour of new Date().getHours()
Environments ==
    {[random |-> [k \in 1..6 |-> (seed * k) % 10], currentHour |-> (seed * 3 + 5) % 24] :
        seed \in {0, 3, 6, 9}}

\* the store is built from a file that cannot be read or from the whole document
GuideInit ==
    /\ Init
    /\ productMd.threw \/ productMd.data = [slang |-> parsedSlang, food |-> parsedFood,
                                            festivals |-> parsedFestivals,
                                            emotions |-> parsedEmotions]

\* The guide keeps no state and the store is read-only once built, so a call returns what
\* the first call after the constructor returns.
GetCulturalGuidance ==
    /\ pc = "ready"
    /\ lastCall.op = "constructor"
    /\ \E category \in GuideCategories, selection \in GuideSelections,
          preferences \in GuidePreferences, environment \in Environments :
          lastCall' = [op |-> "getCulturalGuidance",
                       args |-> <<category, selection, preferences>>,
                       ret |-> getCulturalGuidance(This, category, selection, preferences,
                                                   environment.random,
                                                   environment.currentHour)]
    /\ UNCHANGED <<productMd, slangData, foodData, festivalData, emotionFoodData, isLoaded,
                   pc, formatterVars>>

GuideNext ==
    \/ Constructor
    \/ GetCulturalGuidance

GuideSpec == GuideInit /\ [][GuideNext]_vars

\* C18: getCulturalGuidance resolves, for every category, selection and preferences, to a
\* result with a non-empty response, and the result carries an error exactly when the
\* dropdown step rejects the input: the category is not one of the four, the selection is
\* empty or not an option of the category, or a preference is given a value outside the
\* values of its field (a preference set to '' counts as not given).
C18_ErrorOnlyFromDropdown ==
    lastCall.op = "getCulturalGuidance" =>
        LET category == lastCall.args[1]
            selection == lastCall.args[2]
            preferences == lastCall.args[3]
            result == lastCall.ret
            options == [c \in { <<"s","l","a","n","g">>, <<"f","o","o","d">>, <<"f","e","s","t","i","v","a","l">>, <<"e","m","o","t","i","o","n">> } |->
                           CASE c = <<"s","l","a","n","g">> ->
                                  { <<"g","r","e","e","t","i","n","g"," ","e","x","p","r","e","s","s","i","o","n","s">>, <<"e","m","o","t","i","o","n","a","l"," ","e","x","p","r","e","s","s","i","o","n",
                                                                "s">>,
                                    <<"c","a","s","u","a","l"," ","c","o","n","v","e","r","s","a","t","i","o","n">>, <<"f","a","m","i","l","y"," ","t","e","r","m","s">>,
                                    <<"f","o","o","d","-","r","e","l","a","t","e","d"," ","s","l","a","n","g">> }
                             [] c = <<"f","o","o","d">> ->
                                  { <<"b","r","e","a","k","f","a","s","t"," ","i","t","e","m","s">>, <<"s","t","r","e","e","t"," ","f","o","o","d">>, <<"m","a","i","n"," ","m","e","a","l","s">>,
                                    <<"s","n","a","c","k","s">>, <<"b","e","v","e","r","a","g","e","s">>, <<"s","w","e","e","t","s">> }
                             [] c = <<"f","e","s","t","i","v","a","l">> ->
                                  { <<"U","g","a","d","i">>, <<"S","a","n","k","r","a","n","t","i">>, <<"D","u","s","s","e","h","r","a">>, <<"D","i","w","a","l","i">>,
                                    <<"V","i","n","a","y","a","k","a"," ","C","h","a","v","i","t","h","i">>, <<"S","h","i","v","a","r","a","t","r","i">> }
                             [] c = <<"e","m","o","t","i","o","n">> ->
                                  { <<"s","a","d">>, <<"h","a","p","p","y">>, <<"a","n","g","r","y">>, <<"t","i","r","e","d">>, <<"s","i","c","k">>,
                                    <<"e","x","c","i","t","e","d">>, <<"s","t","r","e","s","s","e","d">> }]
            values == [spiceLevel |-> { <<"l","o","w">>, <<"m","e","d","i","u","m">>, <<"h","i","g","h">>, <<"e","x","t","r","e","m","e">> },
                       dietary |-> { <<"v","e","g">>, <<"n","o","n","-","v","e","g">>, <<"a","n","y">> },
                       formality |-> { <<"f","o","r","m","a","l">>, <<"i","n","f","o","r","m","a","l">> },
                       region |-> { <<"c","o","a","s","t","a","l">>, <<"g","u","n","t","u","r">>, <<"r","a","y","a","l","a","s","e","e","m","a">> }]
            invalidPreference ==
                /\ preferences # Null
                /\ \E field \in DOMAIN preferences :
                      preferences[field] # <<>> /\ preferences[field] \notin values[field]
            dropdownRejects ==
                \/ category \notin DOMAIN options
                \/ selection = <<>>
                \/ selection \notin options[category]
                \/ invalidPreference
        IN  /\ "response" \in DOMAIN result
            /\ Len(result.response) > 0
            /\ ("error" \in DOMAIN result) <=> dropdownRejects

\* the dropdown accepted Sankranti with a region, every later step ran, and the result
\* carries the formatted festival text and no error
C18_Witness ==
    /\ lastCall.op = "getCulturalGuidance"
    /\ lastCall.args = << <<"f","e","s","t","i","v","a","l">>, <<"S","a","n","k","r","a","n","t","i">>,
                          [dietary |-> <<"v","e","g">>, region |-> <<"g","u","n","t","u","r">> ] >>
    /\ "error" \notin DOMAIN lastCall.ret
    /\ includes(toLowerCase(lastCall.ret.response), <<"s","a","n","k","r","a","n","t","i"," ","i","s"," ","a","l","l"," ","a","b","o",
                                                      "u","t"," ","h","a","r","v","e","s","t"," ","f","e","s","t","i","v","a","l">> )

\* C21: a dish whose bestTime is 'Any' passes the time-of-day filter of getFoodInfo for
\* every requested time of day, so a lookup returns every such dish of the city that
\* passes the dietary and spice filters.
C21_AnyTimeAlwaysServed ==
    lastCall.op = "getFoodInfo" =>
        LET city == toLowerCase(lastCall.args[1])
            preferences == lastCall.args[2]
            untimed == [field \in DOMAIN preferences \ {"timeOfDay"} |-> preferences[field]]
            cityFoods == IF city \in DOMAIN foodData THEN foodData[city] ELSE <<>>
            dishes == lastCall.ret.array
        IN  \A k \in DOMAIN cityFoods :
                (cityFoods[k].bestTime = <<"A","n","y">> /\ foodFilter(cityFoods[k], untimed)) =>
                    \E i \in DOMAIN dishes : dishes[i] = cityFoods[k]

\* C22: each section's content ends at the next section marker that occurs in the
\* document, or at its end: the records of each kind that parseProductMd returns are
\* those of the text between that kind's header and the nearest following marker of
\* any section, so that without a festival section no line of the mood section is
\* emitted as a dish.
C22_SectionEndsAtNextMarker ==
    Parsed =>
        LET content == lastCall.args[1].content
            data == lastCall.ret.data
            markers == {<<"U+1F5E3", "U+FE0F">>, <<"U+1F357">>, <<"U+1F389">>,
                        <<"U+2764", "U+FE0F">>, <<"U+1F39B", "U+FE0F">>}
            upToNextMarker(header) ==
                LET whole == sectionOf(content, header, <<"U+1F39B", "U+FE0F">>)
                    marks == {p \in DOMAIN whole :
                                 \E marker \in markers : MatchAt(whole, p, marker)}
                IN  IF marks = {} THEN whole ELSE SubSeq(whole, 1, Min(marks) - 1)
        IN  /\ data.slang = parseSlangSection(upToNextMarker(slangHeader))
            /\ data.food = parseFoodSection(upToNextMarker(foodSectionHeader))
            /\ data.festivals = parseFestivalSection(upToNextMarker(festivalSectionHeader))
            /\ data.emotions = parseEmotionSection(upToNextMarker(emotionSectionHeader))

\* C23: for every mood arrow line of the mood section whose mapping the parser emits,
\* the emotional logic of the mapping is the parenthetical of the line itself when it has
\* one, else the parenthetical that starts the next line when there is one, else the
\* sentence '{food} is culturally appropriate for {mood} feelings'.
C23_EmotionalLogicSameLineFirst ==
    Parsed =>
        LET lines == sectionLines(extractSections(lastCall.args[1].content).emotions)
            emotions == lastCall.ret.data.emotions
            arrowLines == {i \in DOMAIN lines :
                              /\ ~emotionHeader(lines[i])
                              /\ Len(split(lines[i], "U+2192")) = 2}
            emitted == {i \in arrowLines :
                           IsTrue(validateEmotionFoodMapping(asValue(emotionMappingAt(lines, i))))}
            sameLine(i) == inlineLogic(trim(split(lines[i], "U+2192")[2]))
            nextLine(i) == IF i < Len(lines) THEN leadingLogic(lines[i + 1]) ELSE <<>>
            mood(i) == toLowerCase(trim(split(lines[i], "U+2192")[1]))
            food(i) == trim(split(trim(split(lines[i], "U+2192")[2]), "(")[1])
            logic(i) == IF sameLine(i) # <<>> THEN sameLine(i)
                        ELSE IF nextLine(i) # <<>> THEN nextLine(i)
                        ELSE food(i) \o <<" ","i","s"," ","c","u","l","t","u","r","a","l","l","y"," ","a","p","p","r","o",
                                          "p","r","i","a","t","e"," ","f","o","r"," ">> \o mood(i)
                                 \o <<" ","f","e","e","l","i","n","g","s">>
        IN  /\ Len(emotions) = Cardinality(emitted)
            /\ \A i \in emitted :
                   LET k == Cardinality({j \in emitted : j <= i})
                   IN  /\ emotions[k].emotion = mood(i)
                       /\ emotions[k].recommendedFood = food(i)
                       /\ emotions[k].emotionalLogic = logic(i)

\* C24: the formalityLevel of every slang record the parser emits is 'formal' exactly
\* when the sub-block of its term contains the word 'formal' (in any case, not as part
\* of a longer word such as 'Informal'), and 'informal' otherwise.
C24_FormalOnlyForTheWordFormal ==
    Parsed =>
        LET section == extractSections(lastCall.args[1].content).slang
            slang == lastCall.ret.data.slang
            letter(s, i) == i \in DOMAIN s /\ s[i] \in UpperSet \cup LowerSet
            hasWord(s, word) ==
                \E i \in DOMAIN s : /\ MatchAt(toLowerCase(s), i, word)
                                    /\ ~letter(s, i - 1)
                                    /\ ~letter(s, i + Len(word))
        IN  \A k \in DOMAIN slang :
                slang[k].formalityLevel =
                    IF hasWord(termContentOf(section, slang[k].term), <<"f","o","r","m","a","l">> )
                    THEN <<"f","o","r","m","a","l">> ELSE <<"i","n","f","o","r","m","a","l">>

\* C25: every dish the parser emits comes from a line 'name -> description' of the food
\* section: its spiceLevel is extreme when the description mentions extreme, else high
\* when it mentions high or spicy, else low when it mentions low or mild, else medium;
\* its bestTime is Morning when the description mentions breakfast or morning, else
\* Lunch when it mentions lunch, else Evening; and its city is the text of the latest
\* city header before the line without the parenthetical alias.
C25_KeywordOrderAndAlias ==
    Parsed =>
        LET lines == sectionLines(extractSections(lastCall.args[1].content).food)
            food == lastCall.ret.data.food
            mentions(dish, word) == includes(toLowerCase(dish.description), word)
            spice(dish) == IF mentions(dish, <<"e","x","t","r","e","m","e">> ) THEN <<"e","x","t","r","e","m","e">>
                           ELSE IF mentions(dish, <<"h","i","g","h">> ) \/ mentions(dish, <<"s","p","i","c","y">> )
                                THEN <<"h","i","g","h">>
                           ELSE IF mentions(dish, <<"l","o","w">> ) \/ mentions(dish, <<"m","i","l","d">> )
                                THEN <<"l","o","w">>
                           ELSE <<"m","e","d","i","u","m">>
            time(dish) == IF mentions(dish, <<"b","r","e","a","k","f","a","s","t">> ) \/ mentions(dish, <<"m","o","r","n","i","n","g">> )
                          THEN <<"M","o","r","n","i","n","g">>
                          ELSE IF mentions(dish, <<"l","u","n","c","h">> ) THEN <<"L","u","n","c","h">>
                          ELSE <<"E","v","e","n","i","n","g">>
            withoutAlias(header) == trim(split(header, "(")[1])
            headersBefore(i) == {j \in 1..(i - 1) : cityHeader(lines[j])}
        IN  \A k \in DOMAIN food :
                /\ food[k].spiceLevel = spice(food[k])
                /\ food[k].bestTime = time(food[k])
                /\ \E i \in DOMAIN lines :
                       /\ Len(split(lines[i], "U+2192")) = 2
                       /\ food[k].name = trim(split(lines[i], "U+2192")[1])
                       /\ food[k].description = trim(split(lines[i], "U+2192")[2])
                       /\ headersBefore(i) # {}
                       /\ food[k].city = withoutAlias(lines[Max(headersBefore(i))])

\* the parse of a section with a header 'Tirupati (Temple Town)': dishes of Tirupati
\* whose descriptions mention spicy before low, mild before extreme, and no keyword
C25_Witness ==
    /\ Parsed
    /\ LET food == lastCall.ret.data.food
       IN  /\ \E k \in DOMAIN food :
                  /\ food[k].city = <<"T","i","r","u","p","a","t","i">>
                  /\ food[k].description = <<"s","p","i","c","y"," ","b","r","e","a","k","f","a","s","t",","," ","l","o","w",
                                             " ","o","i","l">>
                  /\ food[k].spiceLevel = <<"h","i","g","h">>
                  /\ food[k].bestTime = <<"M","o","r","n","i","n","g">>
           /\ \E k \in DOMAIN food :
                  /\ food[k].description = <<"M","i","l","d"," ","l","u","n","c","h",","," ","e","x","t","r","e","m","e"," ",
                                             "a","t"," ","n","i","g","h","t">>
                  /\ food[k].spiceLevel = <<"e","x","t","r","e","m","e">>
                  /\ food[k].bestTime = <<"L","u","n","c","h">>
           /\ \E k \in DOMAIN food :
                  /\ food[k].description = <<"t","a","n","g","y"," ","r","i","c","e">>
                  /\ food[k].spiceLevel = <<"m","e","d","i","u","m">>
                  /\ food[k].bestTime = <<"E","v","e","n","i","n","g">>

\* C26: the city of every dish the parser emits is one of Visakhapatnam, Vijayawada,
\* Guntur and Tirupati, and it is the name that the latest city header before the
\* line of the dish carries.
C26_CityIsOneOfFour ==
    Parsed =>
        LET lines == sectionLines(extractSections(lastCall.args[1].content).food)
            food == lastCall.ret.data.food
            headersBefore(i) == {j \in 1..(i - 1) : cityHeader(lines[j])}
        IN  \A k \in DOMAIN food :
                /\ food[k].city \in { <<"V","i","s","a","k","h","a","p","a","t","n","a","m">>, <<"V","i","j","a","y","a","w","a","d","a">>, <<"G","u","n","t","u","r">>, <<"T","i","r","u","p","a","t","i">> }
                /\ \E i \in DOMAIN lines :
                       /\ Len(split(lines[i], "U+2192")) = 2
                       /\ food[k].name = trim(split(lines[i], "U+2192")[1])
                       /\ food[k].description = trim(split(lines[i], "U+2192")[2])
                       /\ headersBefore(i) # {}
                       /\ includes(lines[Max(headersBefore(i))], food[k].city)

\* C27: every festival the parser emits is named by a name line of the festival section
\* whose block holds a cultural-meaning line and a foods line; it has the emotionalTone
\* 'Celebratory' when the block has no tone line and the foodSymbolism 'Traditional
\* foods representing the spirit of {name}' when the block has no symbolism line; and
\* the last name of the section is emitted too when its block holds both lines and
\* its foods are not blank.
C27_FestivalNeedsMeaningAndFoods ==
    Parsed =>
        LET lines == sectionLines(extractSections(lastCall.args[1].content).festivals)
            festivals == lastCall.ret.data.festivals
            names == {i \in DOMAIN lines : festivalNameLine(lines[i])}
            blockOf(n) == {j \in DOMAIN lines : j > n /\ \A i \in names : i > n => j < i}
            kindLines(n, kind) == {j \in blockOf(n) : /\ ~festivalHeader(lines[j])
                                                      /\ detailKind(lines[j]) = kind}
            complete(n) == /\ kindLines(n, "culturalMeaning") # {}
                           /\ kindLines(n, "associatedFoods") # {}
            namesFood(n) == LET foods == foodsOf(lines[Max(kindLines(n, "associatedFoods"))])
                            IN  \A f \in DOMAIN foods : foods[f] # <<>>
        IN  /\ \A k \in DOMAIN festivals :
                   \E n \in names :
                       /\ festivals[k].name = lines[n]
                       /\ complete(n)
                       /\ kindLines(n, "emotionalTone") = {} =>
                              festivals[k].emotionalTone = <<"C","e","l","e","b","r","a","t","o","r","y">>
                       /\ kindLines(n, "foodSymbolism") = {} =>
                              festivals[k].foodSymbolism =
                                  <<"T","r","a","d","i","t","i","o","n","a","l"," ","f","o","o","d","s"," ","r","e",
                                    "p","r","e","s","e","n","t","i","n","g"," ","t","h","e"," ","s","p","i","r","i",
                                    "t"," ","o","f"," ">> \o lines[n]
            /\ names # {} =>
                   LET last == Max(names)
                   IN  (complete(last) /\ namesFood(last)) =>
                           /\ Len(festivals) > 0
                           /\ festivals[Len(festivals)].name = lines[last]

\* the parse of a section with three names of which the first has no foods line and the
\* second no meaning: only the last is emitted, with its own symbolism and the tone
\* 'Celebratory'
C27_Witness ==
    /\ Parsed
    /\ LET lines == sectionLines(extractSections(lastCall.args[1].content).festivals)
           festivals == lastCall.ret.data.festivals
       IN  /\ Cardinality({i \in DOMAIN lines : festivalNameLine(lines[i])}) = 3
           /\ Len(festivals) = 1
           /\ festivals[1].name = <<"V","i","n","a","y","a","k","a"," ","C","h","a","v","i","t","h","i">>
           /\ festivals[1].associatedFoods = << <<"U","n","d","r","a","l","l","u">>, <<"M","o","d","a","k">> >>
           /\ festivals[1].emotionalTone = <<"C","e","l","e","b","r","a","t","o","r","y">>
           /\ festivals[1].foodSymbolism = <<"T","h","e"," ","o","f","f","e","r","i","n","g"," ","r","e","p","r","e","s","e",
                                             "n","t","s"," ","d","e","v","o","t","i","o","n">>

---------------------------------------------------------------------------
\* The advice for a mood as a state machine: a call of considerPreferences on the
\* recommendation of mapEmotionToFood for a mood is pending, then it has returned.

\* the moods asked about: every word of Moods, bare and padded on both sides
AdvisedMoods == {mood \in Moods : Len(mood) = Len(trim(mood)) \/ Len(mood) = Len(trim(mood)) + 4}

\* every combination of a dietary, a spice and a region preference, each given or not
MoodPreferences ==
    LET options == [dietary |-> Range(preferenceChecks[2].valid),
                    spiceLevel |-> Range(preferenceChecks[1].valid),
                    region |-> Range(preferenceChecks[4].valid)]
        values == options.dietary \cup options.spiceLevel \cup options.region
    IN  {preferences \in UNION {[given -> values] : given \in SUBSET DOMAIN options} :
            \A field \in DOMAIN preferences : preferences[field] \in options[field]}

AdviceInit ==
    PendingCall("considerPreferences",
                {<<mood, preferences>> : mood \in AdvisedMoods, preferences \in MoodPreferences})

ConsiderPreferences ==
    /\ lastCall.op = "considerPreferences"
    /\ lastCall.ret = Pending
    /\ lastCall' = [lastCall EXCEPT
                       !.ret = considerPreferences(mapEmotionToFood(lastCall.args[1]),
                                                   lastCall.args[2])]
    /\ UNCHANGED <<productMd, slangData, foodData, festivalData, emotionFoodData,
                   isLoaded, pc, formatterVars>>

AdviceNext == ConsiderPreferences

AdviceSpec == AdviceInit /\ [][AdviceNext]_vars

Advised ==
    /\ lastCall.op = "considerPreferences"
    /\ lastCall.ret # Pending

homeFraming(recommendation) ==
    /\ endsWith(recommendation.reasoning, <<" ","B","e","s","t"," ","e","n","j","o","y","e","d"," ","a","t"," ","h","o","m",
                                            "e"," ","f","o","r"," ","t","h","a","t"," ","p","e","r","s","o","n","a","l"," ",
                                            "c","o","m","f","o","r","t",".">> )
    /\ endsWith(recommendation.culturalContext,
                <<" ","H","o","m","e","-","s","t","y","l","e"," ","p","r","e","p","a","r","a","t",
                  "i","o","n"," ","b","r","i","n","g","s"," ","o","u","t"," ","t","h","e"," ","e",
                  "m","o","t","i","o","n","a","l"," ","h","e","a","l","i","n","g"," ","a","s","p",
                  "e","c","t",".">> )

streetFraming(recommendation) ==
    /\ endsWith(recommendation.reasoning, <<" ","P","e","r","f","e","c","t"," ","t","o"," ","g","r","a","b"," ","f","r","o",
                                            "m"," ","y","o","u","r"," ","f","a","v","o","r","i","t","e"," ","l","o","c","a",
                                            "l"," ","s","p","o","t","!">> )
    /\ endsWith(recommendation.culturalContext,
                <<" ","S","t","r","e","e","t","-","s","t","y","l","e"," ","p","r","e","p","a","r",
                  "a","t","i","o","n"," ","a","d","d","s"," ","t","h","a","t"," ","a","u","t","h",
                  "e","n","t","i","c"," ","l","o","c","a","l"," ","f","l","a","v","o","r"," ","a",
                  "n","d"," ","s","o","c","i","a","l"," ","e","n","e","r","g","y",".">> )

\* C28: the recommendation of a mood, adapted to any combination of dietary, spice and
\* region preferences, ends with the home framing exactly when the trimmed, lower-cased
\* mood is sad, sick or angry, with the street framing exactly when it is happy or
\* tired, hence with neither when the mood is none of the five.
C28_FramingFollowsMood ==
    Advised =>
        LET mood == trim(toLowerCase(lastCall.args[1]))
            adapted == lastCall.ret
        IN  /\ homeFraming(adapted) <=> mood \in { <<"s","a","d">>, <<"s","i","c","k">>, <<"a","n","g","r","y">> }
            /\ streetFraming(adapted) <=> mood \in { <<"h","a","p","p","y">>, <<"t","i","r","e","d">> }

\* the advice for a padded 'tIRED' with all three preferences given: the vegetarian
\* dish, with the texts of the spice and the region adaptation, framed for the street
C28_Witness ==
    /\ Advised
    /\ trim(toLowerCase(lastCall.args[1])) = <<"t","i","r","e","d">>
    /\ Len(lastCall.args[1]) > 5
    /\ DOMAIN lastCall.args[2] = {"dietary", "spiceLevel", "region"}
    /\ lastCall.ret.food = <<"C","o","f","f","e","e"," ","w","i","t","h"," ","V","e","g"," ","P","u","n","u",
                             "g","u","l","u"," ","w","i","t","h"," ","m","a","x","i","m","u","m"," ","G","u",
                             "n","t","u","r","-","s","t","y","l","e"," ","h","e","a","t"," ","w","i","t","h",
                             " ","e","x","t","r","a"," ","G","u","n","t","u","r"," ","m","i","r","c","h","i",
                             " ","f","o","r"," ","t","h","a","t"," ","a","u","t","h","e","n","t","i","c"," ",
                             "k","i","c","k">>
    /\ includes(lastCall.ret.reasoning, <<"(","a","d","j","u","s","t","e","d"," ","t","o"," ","y","o","u","r"," ","e","x",
                                          "t","r","e","m","e"," ","s","p","i","c","e"," ","p","r","e","f","e","r","e","n",
                                          "c","e",")">> )
    /\ streetFraming(lastCall.ret)

\* C29: on the store built from the hardcoded data, every name that the fallback
\* builders scan for the nearest known key is a key of its kind: getSlangInfo,
\* getFestivalInfo and getEmotionFoodMapping return a record for it, and getFoodInfo
\* without preferences returns the dishes of the city.
C29_KnownNamesAreKeys ==
    (pc = "ready" /\ productMd.threw) =>
        /\ \A k \in DOMAIN knownSlang : getSlangInfo(This, knownSlang[k]) # Null
        /\ \A k \in DOMAIN knownCities : Len(getFoodInfo(This, knownCities[k], <<>>)) > 0
        /\ \A k \in DOMAIN knownFestivals : getFestivalInfo(This, knownFestivals[k]) # Null
        /\ \A k \in DOMAIN knownEmotions : getEmotionFoodMapping(This, knownEmotions[k]) # Null

\* C30: getFoodInfoWithFallback returns an approximation only for a city that is not a
\* key of the store; for a city that is a key it returns a list of dishes, whatever the
\* preferences.
C30_FallbackOnlyForUnknownCity ==
    lastCall.op = "getFoodInfoWithFallback" =>
        LET city == toLowerCase(lastCall.args[1])
        IN  /\ "isApproximation" \in DOMAIN lastCall.ret => city \notin DOMAIN foodData
            /\ city \in DOMAIN foodData => DOMAIN lastCall.ret = {"array"}

====
